---- MODULE Spec2Model ----
(***************************************************************************)
(* Model of the social graph core (social_graph.cpp): the double-buffered  *)
(* user graph, the internal and public event queues, the event worker,     *)
(* do_work, the graph refresh timer, the full refresh with its diff, and   *)
(* the presence subscription tasks.                                        *)
(***************************************************************************)
EXTENDS Integers, Sequences, FiniteSets, TLC

\* ------------------------------------------------------------------ bounds
\* the number of stimuli of a run: add_users, remove_users and refresh_graph calls
MaxStimuli == 2

\* the number of add_users calls of a run that fills the frames of the worker
MaxFrameCalls == 7

\* the number of add and remove calls on the separate user_buffer
MaxBufferOps == 3

\* the ids the calls on the separate user_buffer name are 1..MaxBufferId
MaxBufferId == 9

\* the number of enable_rich_presence_polling calls of a run
MaxEnableCalls == 3

\* the number of polls after which no further polling iteration is started
MaxPolls == 3

\* the RTA callbacks (connection state changes, resyncs) of a behaviour
MaxRtaCallbacks == 3

\* the full list a refresh fetches names ids of 1..MaxFetchedId
MaxFetchedId == 2

MaxCalls == IF MaxStimuli > MaxFrameCalls THEN MaxStimuli ELSE MaxFrameCalls

\* the ids the application and the services name
Ids == {1}
\* the versions of a user's data the services can return
Variants == {0, 1}

\* ------------------------------------------------------- program constants
NUM_EVENTS_PER_FRAME == 5
EXTRA_USER_FREE_SPACE == 5
\* uint32_t refCount is held as the two's complement reading of its 32 bits:
\* 0xFFFFFFFF is -1, so that the wrap-around of ++ and -- is kept exactly
MaxInt32 == 2147483647
MinInt32 == (-2147483647) - 1

Uint32Inc(r) == IF r = MaxInt32 THEN MinInt32 ELSE r + 1
Uint32Dec(r) == IF r = MinInt32 THEN MaxInt32 ELSE r - 1

\* ------------------------------------------------------------ plain helpers
SeqToSet(s) == {s[i] : i \in 1..Len(s)}
InSeq(x, s) == \E i \in 1..Len(s) : s[i] = x
Max(a, b) == IF a >= b THEN a ELSE b

RECURSIVE SetToSeq(_)
SetToSeq(S) ==
    IF S = {} THEN <<>>
    ELSE LET m == CHOOSE x \in S : \A y \in S : x <= y
         IN <<m>> \o SetToSeq(S \ {m})

\* the non-empty id lists an application call can carry (ascending, distinct)
IdLists == {SetToSeq(S) : S \in (SUBSET Ids) \ {{}}}

\* -------------------------------------------------------------- user values
\* xbox_social_user: id, profile fields, relationship flags, presence record
SocialUser(id, v) ==
    [id |-> id,
     profile |-> v,
     presence |-> v,
     following |-> TRUE,
     followed |-> TRUE]

AllUsers == {SocialUser(id, v) : id \in Ids, v \in Variants}

\* the lists of users a service call can return: ascending ids, one variant each
UserLists ==
    UNION {{[i \in 1..Cardinality(S) |-> SocialUser(SetToSeq(S)[i], f[SetToSeq(S)[i]])]
              : f \in [S -> Variants]} : S \in SUBSET Ids}

\* the lists the initial fetch can return: the first k ids, first version
InitLists ==
    {[i \in 1..k |-> SocialUser(SetToSeq(Ids)[i], 0)] : k \in 0..Cardinality(Ids)}

UserListsFor(ids) ==
    {[i \in 1..Len(ids) |-> SocialUser(ids[i], f[i])] : f \in [1..Len(ids) -> Variants]}

\* xbox_social_user::_Compare: the set of change kinds between two users
CompareUsers(prev, cur) ==
    (IF prev.presence # cur.presence THEN {"presence_change"} ELSE {})
    \cup (IF prev.profile # cur.profile THEN {"profile_change"} ELSE {})
    \cup (IF prev.following # cur.following \/ prev.followed # cur.followed
          THEN {"social_relationship_change"} ELSE {})

ChangeMasks == SUBSET {"presence_change", "profile_change", "social_relationship_change"}

\* social_manager_presence_record::_Compare: TRUE when the records differ
ComparePresence(stored, record) == stored # record

\* ------------------------------------------------------------- slab, graph
\* a slot of the slab that was allocated but never constructed
Raw == [id |-> 0]
\* socialUser pointer: 0 is nullptr, i >= 1 is slot i of the buffer's current
\* slab, Dangling is an address inside a slab that was freed
Dangling == -1

NullCtx == [isNull |-> TRUE, context |-> 0, numObjects |-> 0, tce |-> 0]

\* user_buffer before initialize: no slab, empty free list, empty graph
EmptyBuffer ==
    [buffer |-> <<>>,
     freeData |-> <<>>,
     socialUserGraph |-> [u \in {} |-> 0],
     socialUserEventQueue |-> <<>>]

MapPut(g, k, v) == [x \in (DOMAIN g) \cup {k} |-> IF x = k THEN v ELSE g[x]]
MapErase(g, k) == [x \in (DOMAIN g) \ {k} |-> g[x]]
\* unordered_map::operator[]: a missing key gets a value-initialised context
MapIndex(g, k) == IF k \in DOMAIN g THEN g ELSE MapPut(g, k, [socialUser |-> 0, refCount |-> 0])

\* user_buffers_holder::buffer_alloc: nullptr (no slab) when nothing is asked for
buffer_alloc(numUsers, freeSpaceRequired) ==
    IF numUsers = 0 /\ freeSpaceRequired = 0
    THEN 0
    ELSE numUsers + EXTRA_USER_FREE_SPACE + freeSpaceRequired

\* user_buffers_holder::buffer_init
buffer_init(b, users, freeSpaceRequired) ==
    LET cap == buffer_alloc(Len(users), freeSpaceRequired)
    IN IF cap = 0
       THEN [b EXCEPT !.freeData = <<>>]
       ELSE [b EXCEPT
               !.freeData = [i \in 1..(EXTRA_USER_FREE_SPACE + freeSpaceRequired) |-> Len(users) + i],
               !.buffer = [i \in 1..cap |-> IF i <= Len(users) THEN users[i] ELSE Raw]]

\* user_buffers_holder::initialize_users_in_map over slots first..first+numUsers-1
RECURSIVE initialize_users_in_map(_, _, _)
initialize_users_in_map(b, numUsers, first) ==
    IF numUsers = 0 THEN b
    ELSE LET socialUser == b.buffer[first]
             g == b.socialUserGraph
             g1 == IF socialUser.id \in DOMAIN g
                   THEN [g EXCEPT ![socialUser.id].socialUser = first]
                   ELSE MapPut(g, socialUser.id, [socialUser |-> first, refCount |-> 1])
         IN initialize_users_in_map([b EXCEPT !.socialUserGraph = g1], numUsers - 1, first + 1)

\* user_buffers_holder::initialize_buffer
initialize_buffer(b, users, freeSpaceRequired) ==
    initialize_users_in_map(buffer_init(b, users, freeSpaceRequired), Len(users), 1)

\* the number of graph entries whose slot pointer is not nullptr
PopulatedCount(b) ==
    Cardinality({u \in DOMAIN b.socialUserGraph : b.socialUserGraph[u].socialUser # 0})

\* the pointers that the old slab's release leaves behind: an entry keeps its
\* address unless initialize_users_in_map re-points it
InvalidateSlab(b) ==
    [b EXCEPT !.socialUserGraph =
        [u \in DOMAIN b.socialUserGraph |->
            IF b.socialUserGraph[u].socialUser = 0 THEN b.socialUserGraph[u]
            ELSE [b.socialUserGraph[u] EXCEPT !.socialUser = Dangling]]]

\* the placement loop of add_users_to_buffer (lines 1758-1767)
RECURSIVE PlaceUsers(_, _)
PlaceUsers(b, users) ==
    IF users = <<>> THEN b
    ELSE LET freeData == Head(b.freeData)
             b1 == [b EXCEPT !.freeData = Tail(@), !.buffer[freeData] = Head(users)]
         IN PlaceUsers(initialize_users_in_map(b1, 1, freeData), Tail(users))

\* user_buffers_holder::add_users_to_buffer: the set of outcomes; the copy of
\* the first `size` slots reads whatever those slots hold
add_users_to_buffer(users, b, finalSize) ==
    LET totalSizeNeeded == Max(finalSize, Len(users))
    IN IF totalSizeNeeded > Len(b.freeData)
       THEN LET size == PopulatedCount(b)
                rawSlots == {i \in 1..size : i > Len(b.buffer) \/ b.buffer[i] = Raw}
            IN IF rawSlots # {}
               THEN {[crash |-> TRUE, b |-> b]}
                    \cup {[crash |-> FALSE,
                           b |-> PlaceUsers(initialize_buffer(InvalidateSlab(b),
                                     [i \in 1..size |-> IF i \in rawSlots THEN f[i] ELSE b.buffer[i]],
                                     totalSizeNeeded), users)]
                            : f \in [rawSlots -> AllUsers]}
               ELSE {[crash |-> FALSE,
                      b |-> PlaceUsers(initialize_buffer(InvalidateSlab(b),
                                [i \in 1..size |-> b.buffer[i]], totalSizeNeeded), users)]}
       ELSE IF \E i \in 1..Len(users) : b.freeData[i] = Dangling
            THEN {[crash |-> TRUE, b |-> b]}
            ELSE {[crash |-> FALSE, b |-> PlaceUsers(b, users)]}

\* user_buffers_holder::remove_users_from_buffer
RECURSIVE remove_users_from_buffer(_, _)
remove_users_from_buffer(users, b) ==
    IF users = <<>> THEN b
    ELSE LET user == Head(users)
             g == b.socialUserGraph
         IN IF user \in DOMAIN g
            THEN remove_users_from_buffer(Tail(users),
                    [b EXCEPT !.freeData = Append(@, g[user].socialUser),
                              !.socialUserGraph = MapErase(g, user)])
            ELSE remove_users_from_buffer(Tail(users), b)

\* the user value an entry's pointer refers to
UserAt(b, u) == b.buffer[b.socialUserGraph[u].socialUser]

\* what a reader of the graph sees: for each key the ref_count, whether the
\* slot is empty, populated or freed, and the user value of a populated slot
GraphView(b) ==
    [u \in DOMAIN b.socialUserGraph |->
        [refCount |-> b.socialUserGraph[u].refCount,
         slot |-> IF b.socialUserGraph[u].socialUser = 0 THEN "empty"
                  ELSE IF b.socialUserGraph[u].socialUser = Dangling THEN "dangling"
                  ELSE "populated",
         user |-> IF b.socialUserGraph[u].socialUser >= 1 THEN UserAt(b, u)
                  ELSE SocialUser(0, 0)]]

\* ------------------------------------------------------------------ events
\* internal_social_event: type, the ids it names, its payload, the completion
\* context of the timer call it answers, its error, the completion event of
\* the add_users call it comes from (0: none); seq numbers the enqueue order
InternalEvent(type, ids, users, records, ctx, err, tce, seq) ==
    [type |-> type, ids |-> ids, users |-> users, records |-> records,
     ctx |-> ctx, err |-> err, tce |-> tce, seq |-> seq]

UserIds(users) == [i \in 1..Len(users) |-> users[i].id]

\* event_queue::push: an event of type unknown is dropped
PublicEvents(evt, socialEventType, err) ==
    IF socialEventType = "unknown" THEN <<>>
    ELSE <<[kind |-> socialEventType, users |-> evt.ids, err |-> err]>>

\* ------------------------------------------------------- event application
\* the effects of one apply step on the buffer it is given and on the core
Outcome(b, uac) ==
    [crash |-> FALSE, b |-> b, eventType |-> "unknown", pub |-> <<>>,
     fire |-> <<>>, fireCtx |-> NullCtx, sub |-> <<>>, unsub |-> <<>>,
     uac |-> uac, tceSet |-> <<>>]

Crash(b, uac) == [Outcome(b, uac) EXCEPT !.crash = TRUE]

\* lines 475-487: count up the ids that are present, collect the others
RECURSIVE AddedLoop(_, _, _)
AddedLoop(g, ids, usersToAdd) ==
    IF ids = <<>> THEN [g |-> g, usersToAdd |-> usersToAdd]
    ELSE IF Head(ids) \in DOMAIN g
         THEN AddedLoop([g EXCEPT ![Head(ids)].refCount = Uint32Inc(@)], Tail(ids), usersToAdd)
         ELSE AddedLoop(g, Tail(ids), Append(usersToAdd, Head(ids)))

\* lines 507-512: a new entry with an empty slot and ref_count 1
RECURSIVE AllocLoop(_, _)
AllocLoop(g, users) ==
    IF users = <<>> THEN g
    ELSE AllocLoop(MapPut(g, Head(users), [socialUser |-> 0, refCount |-> 1]), Tail(users))

\* social_graph::apply_users_added_event
apply_users_added_event(evt, b, isFreshEvent, uac) ==
    LET r == AddedLoop(b.socialUserGraph, evt.ids, <<>>)
    IN IF r.usersToAdd = <<>>
       THEN {[Outcome([b EXCEPT !.socialUserGraph = r.g], uac) EXCEPT
                !.tceSet = <<evt.tce, "ok">>]}
       ELSE {[Outcome([b EXCEPT !.socialUserGraph = AllocLoop(r.g, r.usersToAdd)], uac + 1) EXCEPT
                !.fire = IF isFreshEvent THEN r.usersToAdd ELSE <<>>,
                !.fireCtx = [isNull |-> FALSE, context |-> uac + 1,
                             numObjects |-> Len(r.usersToAdd), tce |-> evt.tce]]}

\* lines 528-544: decrement, and at zero evict or erase
RECURSIVE RemovedLoop(_, _, _, _)
RemovedLoop(g, users, removeUsers, eventType) ==
    IF users = <<>> THEN [g |-> g, removeUsers |-> removeUsers, eventType |-> eventType]
    ELSE LET user == Head(users)
             g1 == MapIndex(g, user)
             g2 == [g1 EXCEPT ![user].refCount = Uint32Dec(@)]
         IN IF g2[user].refCount = 0
            THEN IF g2[user].socialUser # 0
                 THEN RemovedLoop(g2, Tail(users), Append(removeUsers, user),
                                  "users_removed_from_social_graph")
                 ELSE RemovedLoop(MapErase(g2, user), Tail(users), removeUsers,
                                  "users_removed_from_social_graph")
            ELSE RemovedLoop(g2, Tail(users), removeUsers, eventType)

\* social_graph::apply_users_removed_event
apply_users_removed_event(evt, b, isFreshEvent, uac) ==
    LET r == RemovedLoop(b.socialUserGraph, evt.ids, <<>>, "unknown")
        b1 == remove_users_from_buffer(r.removeUsers, [b EXCEPT !.socialUserGraph = r.g])
    IN {[Outcome(b1, uac) EXCEPT
            !.eventType = r.eventType,
            !.unsub = IF isFreshEvent THEN r.removeUsers ELSE <<>>]}

\* variant: the public event is pushed on a replay too
users_added_push_always(usersToAdd, isFreshEvent) ==
    IF usersToAdd # <<>>
    THEN <<[kind |-> "users_added_to_social_graph", users |-> UserIds(usersToAdd), err |-> FALSE]>>
    ELSE <<>>

\* lines 603-608: the users_added_to_social_graph event of the users placed
users_added_push(usersToAdd, isFreshEvent) ==
    IF usersToAdd # <<>> /\ isFreshEvent
    THEN <<[kind |-> "users_added_to_social_graph", users |-> UserIds(usersToAdd), err |-> FALSE]>>
    ELSE <<>>

\* variant: no subscription task is started for the users placed
users_added_subscribe_none(usersToAdd, isFreshEvent) == <<>>

\* lines 603-605: the ids handed to setup_device_and_presence_subscriptions
users_added_subscribe(usersToAdd, isFreshEvent) ==
    IF isFreshEvent THEN UserIds(usersToAdd) ELSE <<>>

\* variant: the profiles_changed event is pushed on a replay too
profiles_changed_push_always(usersChanged, isFreshEvent) ==
    IF usersChanged # <<>>
    THEN <<[kind |-> "profiles_changed", users |-> UserIds(usersChanged), err |-> FALSE]>>
    ELSE <<>>

\* lines 610-614: the profiles_changed event of the users overwritten in place
profiles_changed_push(usersChanged, isFreshEvent) ==
    IF usersChanged # <<>> /\ isFreshEvent
    THEN <<[kind |-> "profiles_changed", users |-> UserIds(usersChanged), err |-> FALSE]>>
    ELSE <<>>

\* lines 576-591: split the profiles into fresh ones and changed ones
RECURSIVE ChangeLoop(_, _, _, _, _)
ChangeLoop(b, users, usersToAdd, usersChanged, ub) ==
    IF users = <<>>
    THEN [b |-> b, usersToAdd |-> usersToAdd, usersChanged |-> usersChanged, ub |-> ub]
    ELSE LET user == Head(users)
             g == b.socialUserGraph
         IN IF user.id \in DOMAIN g
            THEN IF g[user.id].socialUser = 0
                 THEN ChangeLoop(b, Tail(users), Append(usersToAdd, user), usersChanged, ub)
                 ELSE IF g[user.id].socialUser = Dangling
                 THEN ChangeLoop(b, Tail(users), usersToAdd, Append(usersChanged, user), TRUE)
                 ELSE ChangeLoop([b EXCEPT !.buffer[g[user.id].socialUser] = user],
                                 Tail(users), usersToAdd, Append(usersChanged, user), ub)
            ELSE ChangeLoop(b, Tail(users), usersToAdd, usersChanged, ub)

\* variant: a failed fetch raises no public event
users_change_error_push_none(evt) == <<>>

\* line 572: the users_added_to_social_graph event that carries the error
users_change_error_push(evt) == PublicEvents(evt, "users_added_to_social_graph", TRUE)

\* social_graph::apply_users_change_event
apply_users_change_event(evt, b, isFreshEvent, uac) ==
    LET tceSet == IF evt.ctx.isNull THEN <<>>
                  ELSE <<evt.ctx.tce, IF evt.err THEN "err" ELSE "ok">>
    IN IF evt.err
       THEN {[Outcome(b, uac) EXCEPT
                !.tceSet = tceSet,
                !.pub = users_change_error_push(evt)]}
       ELSE LET r == ChangeLoop(b, evt.users, <<>>, <<>>, FALSE)
                changed == profiles_changed_push(r.usersChanged, isFreshEvent)
                placed == IF r.usersToAdd = <<>>
                          THEN {[crash |-> FALSE, b |-> r.b]}
                          ELSE add_users_to_buffer(r.usersToAdd, r.b, evt.ctx.numObjects)
            IN (IF r.ub THEN {Crash(b, uac)} ELSE {})
               \cup {IF p.crash THEN Crash(b, uac)
                     ELSE [Outcome(p.b, uac) EXCEPT
                             !.tceSet = tceSet,
                             !.sub = users_added_subscribe(r.usersToAdd, isFreshEvent),
                             !.pub = users_added_push(r.usersToAdd, isFreshEvent) \o changed]
                       : p \in placed}

\* lines 683-714: overwrite the stored presence of each record that differs
RECURSIVE PresenceLoop(_, _, _, _)
PresenceLoop(b, records, userAddedVec, ub) ==
    IF records = <<>> THEN [b |-> b, userAddedVec |-> userAddedVec, ub |-> ub]
    ELSE LET record == Head(records)
             g == b.socialUserGraph
         IN IF record.id = 0 \/ record.id \notin DOMAIN g \/ g[record.id].socialUser = 0
            THEN PresenceLoop(b, Tail(records), userAddedVec, ub)
            ELSE IF g[record.id].socialUser = Dangling
            THEN PresenceLoop(b, Tail(records), userAddedVec, TRUE)
            ELSE IF ComparePresence(UserAt(b, record.id).presence, record.presence)
            THEN PresenceLoop([b EXCEPT !.buffer[g[record.id].socialUser].presence = record.presence],
                              Tail(records), Append(userAddedVec, record.id), ub)
            ELSE PresenceLoop(b, Tail(records), userAddedVec, ub)

\* social_graph::apply_presence_changed_event
apply_presence_changed_event(evt, b, isFreshEvent, uac) ==
    LET r == PresenceLoop(b, evt.records, <<>>, FALSE)
    IN (IF r.ub THEN {Crash(b, uac)} ELSE {})
       \cup {[Outcome(r.b, uac) EXCEPT
                !.pub = IF isFreshEvent /\ r.userAddedVec # <<>>
                        THEN <<[kind |-> "presence_changed", users |-> r.userAddedVec,
                                err |-> FALSE]>>
                        ELSE <<>>]}

\* lines 445-448: the write goes through the pointer of the entry that
\* operator[] finds or creates
RECURSIVE ProfilesLoop(_, _, _)
ProfilesLoop(b, users, ub) ==
    IF users = <<>> THEN [b |-> b, ub |-> ub]
    ELSE LET user == Head(users)
             g == MapIndex(b.socialUserGraph, user.id)
             b1 == [b EXCEPT !.socialUserGraph = g]
         IN IF g[user.id].socialUser = 0 \/ g[user.id].socialUser = Dangling
            THEN ProfilesLoop(b1, Tail(users), TRUE)
            ELSE ProfilesLoop([b1 EXCEPT !.buffer[g[user.id].socialUser] = user], Tail(users), ub)

\* social_graph::apply_event, cases social_relationships_changed and profiles_changed
apply_profiles_changed_event(evt, b, isFreshEvent, uac) ==
    LET r == ProfilesLoop(b, evt.users, FALSE)
    IN (IF r.ub THEN {Crash(b, uac)} ELSE {})
       \cup {[Outcome(r.b, uac) EXCEPT !.eventType = "profiles_changed"]}

\* variant: the event of the switch is pushed on a replay too
final_push_always(evt, eventType, isFreshEvent) == PublicEvents(evt, eventType, FALSE)

\* apply_event, lines 461-464: the event the switch chose, for a fresh event
final_push(evt, eventType, isFreshEvent) ==
    IF isFreshEvent THEN PublicEvents(evt, eventType, FALSE) ELSE <<>>

\* social_graph::apply_event: the outcomes of applying evt to buffer b
apply_event(evt, b, isFreshEvent, uac) ==
    LET outs ==
          CASE evt.type = "users_added" -> apply_users_added_event(evt, b, isFreshEvent, uac)
            [] evt.type = "users_changed" -> apply_users_change_event(evt, b, isFreshEvent, uac)
            [] evt.type = "users_removed" -> apply_users_removed_event(evt, b, isFreshEvent, uac)
            [] evt.type = "presence_changed" -> apply_presence_changed_event(evt, b, isFreshEvent, uac)
            [] evt.type \in {"social_relationships_changed", "profiles_changed"} ->
                   apply_profiles_changed_event(evt, b, isFreshEvent, uac)
            [] OTHER -> {Outcome(b, uac)}
    IN {IF o.crash THEN o
        ELSE [o EXCEPT !.pub = @ \o final_push(evt, o.eventType, isFreshEvent)] : o \in outs}

\* ------------------------------------------------------------------- state
VARIABLES
    crashed,             \* the process died on an invalid memory access
    initPc,              \* position of the continuation of initialize()
    initUsers,           \* payload of the initial fetch
    isInitialized,       \* m_isInitialized
    state,               \* m_socialGraphState
    stateLock,           \* the task that holds m_socialGraphStateMutex
    workerPc,            \* position of the event worker inside do_event_work
    activeBuffer,        \* m_activeBuffer: "null", "A" or "B"
    inactiveBuffer,      \* m_inactiveBuffer
    buf,                 \* m_userBufferA and m_userBufferB
    internalQueue,       \* m_internalEventQueue
    socialEventQueue,    \* m_socialEventQueue, the public events not yet handed out
    numEventsThisFrame,  \* m_numEventsThisFrame
    userAddedContext,    \* m_userAddedContext
    subs,                \* m_socialUserSubscriptions
    subTasks,            \* spawned setup_device_and_presence_subscriptions tasks
    unsubTasks,          \* spawned unsubscribe_users tasks
    graphTimer,          \* m_socialGraphRefreshTimer: the pending ids and their context
    refreshCount,        \* number of refresh_graph calls so far
    fullFetch,           \* full-list fetches of refresh_graph in flight
    diffArg,             \* the fetched list perform_diff is working on
    tceResult,           \* the completion events of the add_users calls
    calls,               \* number of add_users and remove_users calls so far
    changeStruct,        \* the buffer the last do_work returned to the application
    \* history of the run, read by the properties only
    snapshot,            \* the graph the last do_work returned, as it was then
    nextSeq,             \* number of internal events enqueued so far
    lastApplied,         \* per buffer, the enqueue number of the last event applied
    pinned,              \* per buffer and id: 1 if initial, plus adds, minus removes
    allocs,              \* per id: fresh UsersAdded applications that allocated it
    addedEvents,         \* per id: users_added_to_social_graph public events produced
    transportFailed,     \* some PeopleHub fetch failed
    unsubscribed,        \* per id: device+title unsubscribe calls issued
    appliedThisFrame,    \* history: apply_event calls since the last do_work returned
    userBuffer,          \* a user_buffer of its own, driven call by call
    bufferCall,          \* history: the last call on userBuffer, the calls so far, the next unused id
    polling,             \* m_isPollingRichPresence, *m_shouldCancel and the polling iterations scheduled and running
    pollHistory,         \* history: enable_rich_presence_polling calls and polls fired so far
    doWork,              \* a do_work call in steps: its position and the socialEvents vector it filled
    lockThreads,         \* per thread, the function it is in and its position in the function's lock trace
    mutexOwner,          \* per recursive mutex, the thread that owns it and how many times
    initResult,          \* the error of the initial fetch and the error initialize() returned
    rta,                 \* the latched disconnect flag, the state of the last RTA callback and the counts of the RTA history
    applied,             \* history: per buffer, the events applied to it in order, each with its sequence number and freshness
    diffOut,             \* the last diff of the separate user_buffer: list, events, crash
    pollResults,         \* the presence polls whose result has been handled
    conn                 \* the connection-state callbacks in flight and their history

vars == <<crashed, initPc, initUsers, isInitialized, state, stateLock, workerPc,
          activeBuffer, inactiveBuffer, buf, internalQueue, socialEventQueue,
          numEventsThisFrame, userAddedContext, subs, subTasks, unsubTasks,
          graphTimer, refreshCount, fullFetch, diffArg, tceResult, calls,
          changeStruct, snapshot, nextSeq, lastApplied, pinned, allocs,
          addedEvents, transportFailed, unsubscribed,
          appliedThisFrame,
          userBuffer,
          bufferCall,
          polling,
          pollHistory,
          doWork,
          lockThreads,
          mutexOwner,
          initResult,
          rta,
          applied,
          diffOut,
          pollResults,
          conn>>

Buffers == {"A", "B"}

\* the threads on which the RTA service runs connection-state handlers
ConnThreads == {"t1", "t2"}

\* a thread that runs no handle_rta_connection_state_change
IdleCallback == [pc |-> "idle", rtaState |-> "none", wasDisconnected |-> FALSE]

\* m_socialGraphStateMutex, m_socialGraphMutex, m_socialGraphPriorityMutex
Mutexes == {"state", "graph", "priority"}

\* the threads that run the code of a social_graph: the application's thread,
\* the event worker, two threads of the task pool, the thread of the RTA
\* service's callbacks, and the thread that drops the last reference
Threads == {"application", "worker", "pool1", "pool2", "rta", "owner"}

Idle == [fn |-> "idle", pc |-> 0]

\* history of a call on userBuffer: what was called with which ids and
\* profiles, the public events it pushed, the call before it, the number of
\* add, remove and change calls so far and the next id not used yet
BufferCall(op, ids, users, pub, prev, count, next) ==
    [op |-> op, ids |-> ids, users |-> users, pub |-> pub, prev |-> prev,
     count |-> count, next |-> next]

NoCall == [op |-> "none", users |-> <<>>]

LastCall == [op |-> bufferCall.op, users |-> bufferCall.users]

\* user_buffers_holder::active_buffer
active_buffer == activeBuffer

\* variant: the accessor hands out the buffer the application reads
inactive_buffer_is_active == activeBuffer

\* user_buffers_holder::inactive_buffer
inactive_buffer == inactiveBuffer

\* the state after construction and the call of initialize(): the timers and
\* the worker exist, the initial fetch is in flight
Init ==
    /\ crashed = FALSE
    /\ initPc = "fetching"
    /\ initUsers = <<>>
    /\ isInitialized = FALSE
    /\ state = "normal"
    /\ stateLock = "none"
    /\ workerPc = "idle"
    /\ activeBuffer = "null"
    /\ inactiveBuffer = "null"
    /\ buf = [b \in Buffers |-> EmptyBuffer]
    /\ internalQueue = <<>>
    /\ socialEventQueue = <<>>
    /\ numEventsThisFrame = 0
    /\ userAddedContext = 0
    /\ subs = [u \in {} |-> 0]
    /\ subTasks = <<>>
    /\ unsubTasks = <<>>
    /\ graphTimer = [pending |-> <<>>, ctx |-> NullCtx]
    /\ refreshCount = 0
    /\ fullFetch = 0
    /\ diffArg = <<>>
    /\ tceResult = [c \in 1..MaxCalls |-> "unset"]
    /\ calls = 0
    /\ changeStruct = "null"
    /\ snapshot = [u \in {} |-> 0]
    /\ nextSeq = 0
    /\ lastApplied = [b \in Buffers |-> 0]
    /\ pinned = [b \in Buffers |-> [u \in Ids |-> 0]]
    /\ allocs = [u \in Ids |-> 0]
    /\ addedEvents = [u \in Ids |-> 0]
    /\ transportFailed = FALSE
    /\ unsubscribed = [u \in Ids |-> 0]
    /\ appliedThisFrame = [fresh |-> 0, replay |-> 0]
    /\ userBuffer = EmptyBuffer
    /\ bufferCall = BufferCall("none", <<>>, <<>>, <<>>, NoCall, 0, 1)
    /\ polling = [isPollingRichPresence |-> FALSE, shouldCancel |-> FALSE, scheduled |-> 0, running |-> 0]
    /\ pollHistory = [calls |-> 0, polls |-> 0]
    /\ doWork = [pc |-> "idle", socialEvents |-> <<>>]
    /\ lockThreads = [t \in Threads |-> Idle]
    /\ mutexOwner = [m \in Mutexes |-> [owner |-> "none", count |-> 0]]
    /\ initResult = [fetch |-> "pending", returned |-> "pending"]
    /\ rta = [wasDisconnected |-> FALSE, last |-> "none", callbacks |-> 0, handlers |-> 1,
              resyncFires |-> 0]
    /\ applied = [b \in Buffers |-> <<>>]
    /\ diffOut = [done |-> FALSE, fetched |-> <<>>, events |-> <<>>, crash |-> FALSE]
    /\ pollResults = 0
    /\ conn = [threads |-> [t \in ConnThreads |-> IdleCallback], pending |-> <<>>,
               passes |-> 0, changes |-> 0, runs |-> 0, appCalls |-> 0]

\* ---------------------------------------------------------- initialization
\* lines 202-213: the initial fetch fails with an error other than 424
InitFetchFailed_step ==
    /\ ~crashed
    /\ initPc = "fetching"
    /\ initPc' = "failed"
    /\ UNCHANGED <<conn, pollResults, diffOut, applied, rta, mutexOwner, lockThreads, doWork,
                   pollHistory,
                   polling,
                   bufferCall,
                   userBuffer,
                   appliedThisFrame,
                   crashed, initUsers,
                   isInitialized,
                   state, stateLock,
                   workerPc,
                   activeBuffer, inactiveBuffer, buf, internalQueue, socialEventQueue,
                   numEventsThisFrame, userAddedContext, subs, subTasks, unsubTasks,
                   graphTimer, refreshCount, fullFetch, diffArg, tceResult, calls,
                   changeStruct, snapshot, nextSeq, lastApplied, pinned, allocs,
                   addedEvents, transportFailed, unsubscribed>>

InitFetchFailed == InitFetchFailed_step /\ UNCHANGED initResult

\* lines 215, 1612: the fetch returned a list (empty on a 424); buffer A is filled
InitBufferA_step(lists) ==
    /\ ~crashed
    /\ initPc = "fetching"
    /\ \E users \in lists :
        /\ initUsers' = users
        /\ buf' = [buf EXCEPT !["A"] = initialize_buffer(@, users, 0)]
        /\ pinned' = [pinned EXCEPT !["A"] =
                        [u \in Ids |-> IF InSeq(u, UserIds(users)) THEN 1 ELSE 0]]
    /\ initPc' = "bufferA"
    /\ UNCHANGED <<conn, pollResults, diffOut, applied, rta, mutexOwner, lockThreads, doWork,
                   pollHistory,
                   polling,
                   bufferCall,
                   userBuffer,
                   appliedThisFrame, crashed,
                   isInitialized, state,
                   stateLock, workerPc,
                   activeBuffer, inactiveBuffer, internalQueue, socialEventQueue,
                   numEventsThisFrame, userAddedContext, subs, subTasks, unsubTasks,
                   graphTimer, refreshCount, fullFetch, diffArg, tceResult, calls,
                   changeStruct, snapshot, nextSeq, lastApplied, allocs,
                   addedEvents, transportFailed, unsubscribed>>

InitBufferA == InitBufferA_step(InitLists) /\ UNCHANGED initResult

\* lines 1613-1615: buffer B is filled, then the two roles are assigned
InitBufferB ==
    /\ ~crashed
    /\ initPc = "bufferA"
    /\ buf' = [buf EXCEPT !["B"] = initialize_buffer(@, initUsers, 0)]
    /\ pinned' = [pinned EXCEPT !["B"] = pinned["A"]]
    /\ activeBuffer' = "A"
    /\ inactiveBuffer' = "B"
    /\ initPc' = "subscribing"
    /\ UNCHANGED <<conn, pollResults, diffOut, applied, rta, initResult, mutexOwner,
                   lockThreads, doWork,
                   pollHistory, polling,
                   bufferCall,
                   userBuffer,
                   appliedThisFrame,
                   crashed, initUsers,
                   isInitialized,
                   state, stateLock,
                   workerPc,
                   internalQueue, socialEventQueue,
                   numEventsThisFrame, userAddedContext, subs, subTasks, unsubTasks,
                   graphTimer, refreshCount, fullFetch, diffArg, tceResult, calls,
                   changeStruct, snapshot, nextSeq, lastApplied, allocs,
                   addedEvents, transportFailed, unsubscribed>>

\* the subscription table after the first k initial users were subscribed
InitSubscriptions(k) ==
    [u \in {initUsers[i].id : i \in 1..k} |-> [device |-> TRUE, title |-> TRUE]]

\* lines 216-243: every initial user is subscribed, then the core is initialized
InitSubscribed_step ==
    /\ ~crashed
    /\ initPc = "subscribing"
    /\ subs' = InitSubscriptions(Len(initUsers))
    /\ isInitialized' = TRUE
    /\ initPc' = "done"
    /\ UNCHANGED <<conn, pollResults, diffOut, applied, rta, mutexOwner, lockThreads, doWork,
                   pollHistory,
                   polling,
                   bufferCall,
                   userBuffer,
                   appliedThisFrame,
                   crashed, initUsers,
                   state,
                   stateLock,
                   workerPc,
                   activeBuffer, inactiveBuffer, buf, internalQueue, socialEventQueue,
                   numEventsThisFrame, userAddedContext, subTasks, unsubTasks,
                   graphTimer, refreshCount, fullFetch, diffArg, tceResult, calls,
                   changeStruct, snapshot, nextSeq, lastApplied, pinned, allocs,
                   addedEvents, transportFailed, unsubscribed>>

InitSubscribed == InitSubscribed_step /\ UNCHANGED initResult

\* lines 225-228: a subscription of the k-th initial user fails, initialize()
\* returns runtime_error and the core stays uninitialized
InitSubscribeFailed_step ==
    /\ ~crashed
    /\ initPc = "subscribing"
    /\ \E k \in 1..Len(initUsers) : subs' = InitSubscriptions(k - 1)
    /\ initPc' = "failed"
    /\ UNCHANGED <<conn, pollResults, diffOut, applied, rta, mutexOwner, lockThreads, doWork,
                   pollHistory,
                   polling,
                   bufferCall,
                   userBuffer,
                   appliedThisFrame,
                   crashed, initUsers,
                   isInitialized,
                   state, stateLock,
                   workerPc,
                   activeBuffer, inactiveBuffer, buf, internalQueue, socialEventQueue,
                   numEventsThisFrame, userAddedContext, subTasks, unsubTasks,
                   graphTimer, refreshCount, fullFetch, diffArg, tceResult, calls,
                   changeStruct, snapshot, nextSeq, lastApplied, pinned, allocs,
                   addedEvents, transportFailed, unsubscribed>>

InitSubscribeFailed == InitSubscribeFailed_step /\ UNCHANGED initResult

\* ------------------------------------------------------- application calls
\* m_internalEventQueue.push
Push(q, evts, n) == q \o [i \in 1..Len(evts) |-> [evts[i] EXCEPT !.seq = n + i]]

\* social_graph::add_users, as long as fewer than limit calls were made
add_users_upto(limit) ==
    /\ ~crashed
    /\ initPc \in {"done", "failed"}
    /\ calls + refreshCount < limit
    /\ \E ids \in IdLists :
        internalQueue' = Push(internalQueue,
            <<InternalEvent("users_added", ids, <<>>, <<>>, NullCtx, FALSE, calls + 1, 0)>>,
            nextSeq)
    /\ nextSeq' = nextSeq + 1
    /\ calls' = calls + 1
    /\ UNCHANGED <<conn, pollResults, diffOut, applied, rta, initResult, mutexOwner,
                   lockThreads, doWork,
                   pollHistory, polling,
                   bufferCall,
                   userBuffer,
                   appliedThisFrame,
                   crashed, initPc,
                   initUsers,
                   isInitialized, state,
                   stateLock, workerPc,
                   activeBuffer, inactiveBuffer, buf, socialEventQueue,
                   numEventsThisFrame, userAddedContext, subs, subTasks, unsubTasks,
                   graphTimer, refreshCount, fullFetch, diffArg, tceResult,
                   changeStruct, snapshot, lastApplied, pinned, allocs,
                   addedEvents, transportFailed, unsubscribed>>

\* social_graph::add_users
add_users == add_users_upto(MaxStimuli)

\* social_graph::add_users in the runs that fill the frames of the worker
add_users_frame == add_users_upto(MaxFrameCalls)

\* social_graph::remove_users
remove_users ==
    /\ ~crashed
    /\ initPc \in {"done", "failed"}
    /\ calls + refreshCount < MaxStimuli
    /\ \E ids \in IdLists :
        internalQueue' = Push(internalQueue,
            <<InternalEvent("users_removed", ids, <<>>, <<>>, NullCtx, FALSE, 0, 0)>>,
            nextSeq)
    /\ nextSeq' = nextSeq + 1
    /\ calls' = calls + 1
    /\ UNCHANGED <<conn, pollResults, diffOut, applied, rta, initResult, mutexOwner,
                   lockThreads, doWork,
                   pollHistory, polling,
                   bufferCall,
                   userBuffer,
                   appliedThisFrame,
                   crashed, initPc,
                   initUsers,
                   isInitialized, state,
                   stateLock, workerPc,
                   activeBuffer, inactiveBuffer, buf, socialEventQueue,
                   numEventsThisFrame, userAddedContext, subs, subTasks, unsubTasks,
                   graphTimer, refreshCount, fullFetch, diffArg, tceResult,
                   changeStruct, snapshot, lastApplied, pinned, allocs,
                   addedEvents, transportFailed, unsubscribed>>

\* ------------------------------------------------------------ core helpers
\* variant: the roles stay as they are
swap_keeps_roles(active) ==
    IF active = "A" THEN [active |-> "A", inactive |-> "B"]
    ELSE [active |-> "B", inactive |-> "A"]

\* user_buffers_holder::swap: the new active and inactive roles
swap(active) ==
    IF active = "A" THEN [active |-> "B", inactive |-> "A"]
    ELSE [active |-> "A", inactive |-> "B"]

\* variant: the mirror is put in front of the ones already pending
add_event_front(bufs, active, evt) ==
    [bufs EXCEPT ![active].socialUserEventQueue = <<evt>> \o @]

\* variant: the applied event is not mirrored
add_event_dropped(bufs, active, evt) == bufs

\* variant: the mirror goes to the list of the buffer that was just mutated
add_event_same_buffer(bufs, active, evt) ==
    [bufs EXCEPT ![IF active = "A" THEN "B" ELSE "A"].socialUserEventQueue = Append(@, evt)]

\* user_buffers_holder::add_event: the mirror goes to the active buffer's list
add_event(bufs, active, evt) ==
    [bufs EXCEPT ![active].socialUserEventQueue = Append(@, evt)]

\* variant: the pending list of the inactive buffer is never looked at
hasCachedEvents_never(initialized, inactive, bufs) == FALSE

\* line 284 of do_event_work
hasCachedEvents(initialized, inactive, bufs) ==
    initialized /\ inactive # "null" /\ bufs[inactive].socialUserEventQueue # <<>>

\* variant: the count of the frame is not looked at
shouldApplyEvent_any_count(q, n) == q # <<>>

\* line 359 of process_events
shouldApplyEvent(q, n) == q # <<>> /\ n < NUM_EVENTS_PER_FRAME

\* variant: the state is not looked at
shouldSwap_any_state(st, inactive, bufs) ==
    inactive # "null" /\ bufs[inactive].socialUserEventQueue = <<>>

\* line 1135 of do_work
shouldSwap(st, inactive, bufs) ==
    st = "normal" /\ inactive # "null" /\ bufs[inactive].socialUserEventQueue = <<>>

\* variant: the state is not looked at
shouldDrain_any_state(q, st) == q # <<>>

\* line 1149 of do_work
shouldDrain(q, st) == q # <<>> /\ st = "normal"

\* task_completion_event::set: the first result stays
SetTce(res, r) ==
    IF r = <<>> THEN res
    ELSE IF r[1] = 0 THEN res
    ELSE IF res[r[1]] # "unset" THEN res
    ELSE [res EXCEPT ![r[1]] = r[2]]

\* call_buffer_timer::fire: the ids join the pending ones; the fire that finds
\* nothing pending schedules the call and gives it its completion context
TimerFire(t, ids, ctx) ==
    IF ids = <<>> THEN t
    ELSE [t EXCEPT !.pending = @ \o SelectSeq(ids, LAMBDA u : ~InSeq(u, t.pending)),
                   !.ctx = IF t.pending = <<>> THEN ctx ELSE @]

\* std::weak_ptr::lock: an empty weak pointer yields nullptr
WeakLock(weak) == weak = "this"

SpawnTask(tasks, weak, users) ==
    IF users = <<>> THEN tasks ELSE Append(tasks, [weak |-> weak, users |-> users])

RemoveAt(s, i) == SubSeq(s, 1, i - 1) \o SubSeq(s, i + 1, Len(s))

\* history: the pin count an applied event leaves
PinnedAfter(p, evt) ==
    [u \in Ids |->
        IF evt.type = "users_added" /\ InSeq(u, evt.ids) THEN p[u] + 1
        ELSE IF evt.type = "users_removed" /\ InSeq(u, evt.ids) THEN p[u] - 1
        ELSE p[u]]

CountAdded(pub, u) ==
    Cardinality({i \in 1..Len(pub) :
        pub[i].kind = "users_added_to_social_graph" /\ InSeq(u, pub[i].users)})

\* variant: the steps do not wait for do_work
PriorityMutexFree_always == TRUE

\* m_socialGraphPriorityMutex is held by do_work from its first line to its
\* return; the steps that take it wait for a do_work call that is under way
PriorityMutexFree == doWork.pc = "idle"

\* ------------------------------------------------------------ event worker
\* do_event_work, lines 276-293: take the state mutex, enter event_processing
\* and look for cached events in the inactive buffer
do_event_work_begin ==
    /\ ~crashed
    /\ PriorityMutexFree
    /\ workerPc = "idle"
    /\ stateLock = "none"
    /\ stateLock' = "worker"
    /\ state' = "event_processing"
    /\ workerPc' = IF hasCachedEvents(isInitialized, inactiveBuffer, buf)
                   THEN "cached" ELSE "events"
    /\ UNCHANGED <<conn, pollResults, diffOut, applied, rta, initResult, mutexOwner,
                   lockThreads, doWork,
                   pollHistory, polling,
                   bufferCall,
                   userBuffer,
                   appliedThisFrame,
                   crashed, initPc,
                   initUsers,
                   isInitialized,
                   activeBuffer, inactiveBuffer, buf, internalQueue, socialEventQueue,
                   numEventsThisFrame, userAddedContext, subs, subTasks, unsubTasks,
                   graphTimer, refreshCount, fullFetch, diffArg, tceResult, calls,
                   changeStruct, snapshot, nextSeq, lastApplied, pinned, allocs,
                   addedEvents, transportFailed, unsubscribed>>

\* process_cached_events, lines 344-348: one replay, is_fresh = false
process_cached_events_apply_step ==
    /\ ~crashed
    /\ workerPc = "cached"
    /\ buf[inactive_buffer].socialUserEventQueue # <<>>
    /\ LET evt == Head(buf[inactive_buffer].socialUserEventQueue)
           popped == [buf[inactive_buffer] EXCEPT !.socialUserEventQueue = Tail(@)]
       IN \E o \in apply_event(evt, popped, FALSE, userAddedContext) :
            IF o.crash
            THEN /\ crashed' = TRUE
                 /\ UNCHANGED <<buf, socialEventQueue, userAddedContext, tceResult,
                                lastApplied, pinned, addedEvents>>
            ELSE /\ crashed' = FALSE
                 /\ buf' = [buf EXCEPT ![inactive_buffer] = o.b]
                 /\ socialEventQueue' = socialEventQueue \o o.pub
                 /\ userAddedContext' = o.uac
                 /\ tceResult' = SetTce(tceResult, o.tceSet)
                 /\ lastApplied' = [lastApplied EXCEPT ![inactive_buffer] = evt.seq]
                 /\ pinned' = [pinned EXCEPT ![inactive_buffer] = PinnedAfter(@, evt)]
                 /\ addedEvents' = [u \in Ids |-> addedEvents[u] + CountAdded(o.pub, u)]
    /\ UNCHANGED <<conn, pollResults, diffOut, rta, initResult, mutexOwner, lockThreads,
                   doWork,
                   pollHistory, polling,
                   bufferCall,
                   userBuffer,
                   initPc, initUsers,
                   isInitialized, state,
                   stateLock, workerPc,
                   activeBuffer, inactiveBuffer, internalQueue,
                   numEventsThisFrame, subs, subTasks, unsubTasks,
                   graphTimer, refreshCount, fullFetch, diffArg, calls,
                   changeStruct, snapshot, nextSeq, allocs,
                   transportFailed, unsubscribed>>

\* process_cached_events, lines 344-348, the history of the frame left alone
process_cached_events_apply ==
    process_cached_events_apply_step /\ UNCHANGED <<appliedThisFrame, applied>>

\* the replay counted as one apply_event call of the frame
process_cached_events_apply_counted ==
    /\ process_cached_events_apply_step
    /\ appliedThisFrame' = [appliedThisFrame EXCEPT !.replay = @ + 1]
    /\ UNCHANGED applied

\* the replay entered in the history of the buffer it was made on
process_cached_events_apply_logged ==
    /\ process_cached_events_apply_step
    /\ applied' = IF crashed' THEN applied
                  ELSE [applied EXCEPT ![inactive_buffer] =
                          Append(@, [seq |-> Head(buf[inactive_buffer].socialUserEventQueue).seq,
                                     fresh |-> FALSE])]
    /\ UNCHANGED appliedThisFrame

\* process_cached_events, lines 350-352: the list is drained, back to normal
process_cached_events_done ==
    /\ ~crashed
    /\ PriorityMutexFree
    /\ workerPc = "cached"
    /\ buf[inactive_buffer].socialUserEventQueue = <<>>
    /\ state' = "normal"
    /\ stateLock' = "none"
    /\ workerPc' = "idle"
    /\ UNCHANGED <<conn, pollResults, diffOut, applied, rta, initResult, mutexOwner,
                   lockThreads, doWork,
                   pollHistory, polling,
                   bufferCall,
                   userBuffer,
                   appliedThisFrame,
                   crashed, initPc,
                   initUsers,
                   isInitialized,
                   activeBuffer, inactiveBuffer, buf, internalQueue, socialEventQueue,
                   numEventsThisFrame, userAddedContext, subs, subTasks, unsubTasks,
                   graphTimer, refreshCount, fullFetch, diffArg, tceResult, calls,
                   changeStruct, snapshot, nextSeq, lastApplied, pinned, allocs,
                   addedEvents, transportFailed, unsubscribed>>

\* do_event_work lines 299-307 with process_events: one fresh event is applied
\* to the inactive buffer and mirrored
process_events_apply_step ==
    /\ ~crashed
    /\ PriorityMutexFree
    /\ workerPc = "events"
    /\ isInitialized
    /\ shouldApplyEvent(internalQueue, numEventsThisFrame)
    /\ LET evt == Head(internalQueue)
       IN \E o \in apply_event(evt, buf[inactive_buffer], TRUE, userAddedContext) :
            IF o.crash
            THEN /\ crashed' = TRUE
                 /\ UNCHANGED <<state, stateLock, workerPc, buf, internalQueue,
                                socialEventQueue, numEventsThisFrame, userAddedContext,
                                subTasks, unsubTasks, graphTimer, tceResult,
                                lastApplied, pinned, allocs, addedEvents>>
            ELSE /\ crashed' = FALSE
                 /\ state' = "normal"
                 /\ stateLock' = "none"
                 /\ workerPc' = "idle"
                 /\ numEventsThisFrame' = numEventsThisFrame + 1
                 /\ internalQueue' = Tail(internalQueue)
                 /\ buf' = add_event([buf EXCEPT ![inactive_buffer] = o.b], active_buffer, evt)
                 /\ socialEventQueue' = socialEventQueue \o o.pub
                 /\ userAddedContext' = o.uac
                 /\ subTasks' = SpawnTask(subTasks, "this", o.sub)
                 /\ unsubTasks' = SpawnTask(unsubTasks, "empty", o.unsub)
                 /\ graphTimer' = TimerFire(graphTimer, o.fire, o.fireCtx)
                 /\ tceResult' = SetTce(tceResult, o.tceSet)
                 /\ lastApplied' = [lastApplied EXCEPT ![inactive_buffer] = evt.seq]
                 /\ pinned' = [pinned EXCEPT ![inactive_buffer] = PinnedAfter(@, evt)]
                 /\ allocs' = [u \in Ids |->
                                 IF evt.type = "users_added" /\ InSeq(u, evt.ids)
                                    /\ u \notin DOMAIN buf[inactive_buffer].socialUserGraph
                                 THEN allocs[u] + 1 ELSE allocs[u]]
                 /\ addedEvents' = [u \in Ids |-> addedEvents[u] + CountAdded(o.pub, u)]
    /\ UNCHANGED <<conn, pollResults, diffOut, rta, initResult, mutexOwner, lockThreads,
                   doWork,
                   pollHistory, polling,
                   bufferCall,
                   userBuffer,
                   initPc, initUsers,
                   isInitialized,
                   activeBuffer, inactiveBuffer, subs,
                   refreshCount, fullFetch, diffArg, calls,
                   changeStruct, snapshot, nextSeq,
                   transportFailed, unsubscribed>>

\* do_event_work lines 299-307 with process_events, the history of the frame left alone
process_events_apply ==
    process_events_apply_step /\ UNCHANGED <<appliedThisFrame, applied>>

\* the fresh application counted as one apply_event call of the frame
process_events_apply_counted ==
    /\ process_events_apply_step
    /\ appliedThisFrame' = [appliedThisFrame EXCEPT !.fresh = @ + 1]
    /\ UNCHANGED applied

\* the fresh application entered in the history of the buffer it was made on
process_events_apply_logged ==
    /\ process_events_apply_step
    /\ applied' = IF crashed' THEN applied
                  ELSE [applied EXCEPT ![inactive_buffer] =
                          Append(@, [seq |-> Head(internalQueue).seq, fresh |-> TRUE])]
    /\ UNCHANGED appliedThisFrame

\* do_event_work lines 299-316 when there is nothing to apply: back to normal
process_events_none ==
    /\ ~crashed
    /\ PriorityMutexFree
    /\ workerPc = "events"
    /\ ~(isInitialized /\ shouldApplyEvent(internalQueue, numEventsThisFrame))
    /\ state' = "normal"
    /\ stateLock' = "none"
    /\ workerPc' = "idle"
    /\ UNCHANGED <<conn, pollResults, diffOut, applied, rta, initResult, mutexOwner,
                   lockThreads, doWork,
                   pollHistory, polling,
                   bufferCall,
                   userBuffer,
                   appliedThisFrame,
                   crashed, initPc,
                   initUsers,
                   isInitialized,
                   activeBuffer, inactiveBuffer, buf, internalQueue, socialEventQueue,
                   numEventsThisFrame, userAddedContext, subs, subTasks, unsubTasks,
                   graphTimer, refreshCount, fullFetch, diffArg, tceResult, calls,
                   changeStruct, snapshot, nextSeq, lastApplied, pinned, allocs,
                   addedEvents, transportFailed, unsubscribed>>

\* ------------------------------------------------------------------ do_work
\* social_graph::do_work
do_work_step ==
    /\ ~crashed
    /\ numEventsThisFrame' = 0
    /\ LET roles == IF shouldSwap(state, inactiveBuffer, buf)
                    THEN swap(activeBuffer)
                    ELSE [active |-> activeBuffer, inactive |-> inactiveBuffer]
       IN /\ activeBuffer' = roles.active
          /\ inactiveBuffer' = roles.inactive
          /\ changeStruct' = roles.active
          /\ snapshot' = IF roles.active = "null" THEN [u \in {} |-> 0]
                         ELSE GraphView(buf[roles.active])
    /\ socialEventQueue' = IF shouldDrain(socialEventQueue, state) THEN <<>>
                           ELSE socialEventQueue
    /\ UNCHANGED <<conn, pollResults, diffOut, applied, rta, initResult, mutexOwner,
                   lockThreads, doWork,
                   pollHistory, polling,
                   bufferCall,
                   userBuffer,
                   crashed, initPc,
                   initUsers,
                   isInitialized, state,
                   stateLock, workerPc,
                   buf, internalQueue,
                   userAddedContext, subs, subTasks, unsubTasks,
                   graphTimer, refreshCount, fullFetch, diffArg, tceResult, calls,
                   nextSeq, lastApplied, pinned, allocs,
                   addedEvents, transportFailed, unsubscribed>>

\* social_graph::do_work, the history of the frame left alone
do_work ==
    do_work_step /\ UNCHANGED appliedThisFrame

\* do_work returns: the count of the frame starts again
do_work_counted ==
    /\ do_work_step
    /\ appliedThisFrame' = [fresh |-> 0, replay |-> 0]

\* ------------------------------------------------------ graph refresh timer
\* the timer's window ends and social_graph_timer_callback (lines 1166-1188)
\* fetches the pending ids: the profiles returned are enqueued as UsersChanged
graph_fetch_succeeded ==
    /\ ~crashed
    /\ graphTimer.pending # <<>>
    /\ \E users \in UserListsFor(graphTimer.pending) :
        internalQueue' = Push(internalQueue,
            <<InternalEvent("users_changed", UserIds(users), users, <<>>,
                            graphTimer.ctx, FALSE, 0, 0)>>, nextSeq)
    /\ nextSeq' = nextSeq + 1
    /\ graphTimer' = [pending |-> <<>>, ctx |-> NullCtx]
    /\ UNCHANGED <<conn, pollResults, diffOut, applied, rta, initResult, mutexOwner,
                   lockThreads, doWork,
                   pollHistory, polling,
                   bufferCall,
                   userBuffer,
                   appliedThisFrame,
                   crashed, initPc,
                   initUsers,
                   isInitialized, state,
                   stateLock, workerPc,
                   activeBuffer, inactiveBuffer, buf, socialEventQueue,
                   numEventsThisFrame, userAddedContext, subs, subTasks, unsubTasks,
                   refreshCount, fullFetch, diffArg, tceResult, calls,
                   changeStruct, snapshot, lastApplied, pinned, allocs,
                   addedEvents, transportFailed, unsubscribed>>

\* lines 1166-1177 and 1189-1199: the fetch of the pending ids failed, a
\* UsersChanged carrying the error is enqueued
graph_fetch_failed ==
    /\ ~crashed
    /\ graphTimer.pending # <<>>
    /\ internalQueue' = Push(internalQueue,
            <<InternalEvent("users_changed", graphTimer.pending, <<>>, <<>>,
                            graphTimer.ctx, TRUE, 0, 0)>>, nextSeq)
    /\ nextSeq' = nextSeq + 1
    /\ transportFailed' = TRUE
    /\ graphTimer' = [pending |-> <<>>, ctx |-> NullCtx]
    /\ UNCHANGED <<conn, pollResults, diffOut, applied, rta, initResult, mutexOwner,
                   lockThreads, doWork,
                   pollHistory, polling,
                   bufferCall,
                   userBuffer,
                   appliedThisFrame,
                   crashed, initPc,
                   initUsers,
                   isInitialized, state,
                   stateLock, workerPc,
                   activeBuffer, inactiveBuffer, buf, socialEventQueue,
                   numEventsThisFrame, userAddedContext, subs, subTasks, unsubTasks,
                   refreshCount, fullFetch, diffArg, tceResult, calls,
                   changeStruct, snapshot, lastApplied, pinned, allocs,
                   addedEvents, unsubscribed>>

\* ------------------------------------------------------------ full refresh
\* refresh_graph, lines 959-969: take the state mutex, enter refresh
refresh_graph_begin ==
    /\ ~crashed
    /\ initPc \in {"done", "failed"}
    /\ calls + refreshCount < MaxStimuli
    /\ stateLock = "none"
    /\ stateLock' = "refresh"
    /\ state' = "refresh"
    /\ refreshCount' = refreshCount + 1
    /\ UNCHANGED <<conn, pollResults, diffOut, applied, rta, initResult, mutexOwner,
                   lockThreads, doWork,
                   pollHistory, polling,
                   bufferCall,
                   userBuffer,
                   appliedThisFrame,
                   crashed, initPc,
                   initUsers,
                   isInitialized, workerPc,
                   activeBuffer, inactiveBuffer, buf, internalQueue, socialEventQueue,
                   numEventsThisFrame, userAddedContext, subs, subTasks, unsubTasks,
                   graphTimer, fullFetch, diffArg, tceResult, calls,
                   changeStruct, snapshot, nextSeq, lastApplied, pinned, allocs,
                   addedEvents, transportFailed, unsubscribed>>

\* social_graph::refresh_graph_helper: the populated users the caller does not
\* follow; reading through a dangling pointer may name the user or not
refresh_graph_helper(inactive, bufs) ==
    IF inactive = "null" THEN {<<>>}
    ELSE LET g == bufs[inactive].socialUserGraph
             sure == {u \in DOMAIN g : g[u].socialUser >= 1 /\ ~UserAt(bufs[inactive], u).followed}
             dangling == {u \in DOMAIN g : g[u].socialUser = Dangling}
         IN {SetToSeq(sure \cup d) : d \in SUBSET dangling}

\* refresh_graph, lines 970-1000: collect the users to refresh, back to normal,
\* fire the graph refresh timer and issue the full-list fetch
refresh_graph_end ==
    /\ ~crashed
    /\ stateLock = "refresh"
    /\ state' = "normal"
    /\ stateLock' = "none"
    /\ \E userRefreshList \in refresh_graph_helper(inactiveBuffer, buf) :
        graphTimer' = TimerFire(graphTimer, userRefreshList, NullCtx)
    /\ fullFetch' = fullFetch + 1
    /\ UNCHANGED <<conn, pollResults, diffOut, applied, rta, initResult, mutexOwner,
                   lockThreads, doWork,
                   pollHistory, polling,
                   bufferCall,
                   userBuffer,
                   appliedThisFrame,
                   crashed, initPc,
                   initUsers,
                   isInitialized, workerPc,
                   activeBuffer, inactiveBuffer, buf, internalQueue, socialEventQueue,
                   numEventsThisFrame, userAddedContext, subs, subTasks, unsubTasks,
                   refreshCount, diffArg, tceResult, calls,
                   changeStruct, snapshot, nextSeq, lastApplied, pinned, allocs,
                   addedEvents, transportFailed, unsubscribed>>

\* lines 1016-1019 and 1034-1038: the full-list fetch failed, or it returned
\* before the buffers exist: nothing is diffed
full_fetch_dropped ==
    /\ ~crashed
    /\ fullFetch > 0
    /\ fullFetch' = fullFetch - 1
    /\ \/ transportFailed' = TRUE
       \/ /\ inactiveBuffer = "null"
          /\ stateLock = "none"
          /\ UNCHANGED transportFailed
    /\ UNCHANGED <<conn, pollResults, diffOut, applied, rta, initResult, mutexOwner,
                   lockThreads, doWork,
                   pollHistory, polling,
                   bufferCall,
                   userBuffer,
                   appliedThisFrame,
                   crashed, initPc,
                   initUsers,
                   isInitialized, state,
                   stateLock, workerPc,
                   activeBuffer, inactiveBuffer, buf, internalQueue, socialEventQueue,
                   numEventsThisFrame, userAddedContext, subs, subTasks, unsubTasks,
                   graphTimer, refreshCount, diffArg, tceResult, calls,
                   changeStruct, snapshot, nextSeq, lastApplied, pinned, allocs,
                   addedEvents, unsubscribed>>

\* perform_diff, lines 1029-1041: take the state mutex, enter diff
perform_diff_begin ==
    /\ ~crashed
    /\ fullFetch > 0
    /\ stateLock = "none"
    /\ inactiveBuffer # "null"
    /\ \E users \in UserLists : diffArg' = users
    /\ fullFetch' = fullFetch - 1
    /\ stateLock' = "diff"
    /\ state' = "diff"
    /\ UNCHANGED <<conn, pollResults, diffOut, applied, rta, initResult, mutexOwner,
                   lockThreads, doWork,
                   pollHistory, polling,
                   bufferCall,
                   userBuffer,
                   appliedThisFrame,
                   crashed, initPc,
                   initUsers,
                   isInitialized, workerPc,
                   activeBuffer, inactiveBuffer, buf, internalQueue, socialEventQueue,
                   numEventsThisFrame, userAddedContext, subs, subTasks, unsubTasks,
                   graphTimer, refreshCount, tceResult, calls,
                   changeStruct, snapshot, nextSeq, lastApplied, pinned, allocs,
                   addedEvents, transportFailed, unsubscribed>>

PresenceRecords(users) == [i \in 1..Len(users) |-> [id |-> users[i].id, presence |-> users[i].presence]]

\* perform_diff, lines 1049-1105: the events the diff enqueues. masks gives the
\* result of the comparison for the ids whose stored pointer is null or
\* dangling, removedDangling the dangling ids read as following
DiffEvents(b, fetched, masks, removedDangling) ==
    LET g == b.socialUserGraph
        fetchedIds == SeqToSet(UserIds(fetched))
        didChange(user) ==
            IF user.id \in DOMAIN masks THEN masks[user.id]
            ELSE CompareUsers(UserAt(b, user.id), user)
        known(user) == user.id \in DOMAIN g
        usersAddedList == SelectSeq(fetched, LAMBDA u : ~known(u))
        usersRemovedList ==
            SetToSeq({u \in DOMAIN g :
                /\ u \notin fetchedIds
                /\ \/ g[u].socialUser >= 1 /\ UserAt(b, u).following
                   \/ u \in removedDangling})
        presenceChangeList ==
            SelectSeq(fetched, LAMBDA u : known(u) /\ "presence_change" \in didChange(u))
        profileChangeList ==
            SelectSeq(fetched, LAMBDA u : known(u) /\ "profile_change" \in didChange(u))
        socialRelationshipChangeList ==
            SelectSeq(fetched, LAMBDA u : known(u) /\ "social_relationship_change" \in didChange(u))
    IN (IF usersAddedList = <<>> THEN <<>>
        ELSE <<InternalEvent("users_changed", UserIds(usersAddedList), usersAddedList, <<>>,
                             NullCtx, FALSE, 0, 0)>>)
       \o (IF usersRemovedList = <<>> THEN <<>>
           ELSE <<InternalEvent("users_removed", usersRemovedList, <<>>, <<>>,
                                NullCtx, FALSE, 0, 0)>>)
       \o (IF presenceChangeList = <<>> THEN <<>>
           ELSE <<InternalEvent("presence_changed", UserIds(presenceChangeList), <<>>,
                                PresenceRecords(presenceChangeList), NullCtx, FALSE, 0, 0)>>)
       \o (IF profileChangeList = <<>> THEN <<>>
           ELSE <<InternalEvent("profiles_changed", UserIds(profileChangeList),
                                profileChangeList, <<>>, NullCtx, FALSE, 0, 0)>>)
       \o (IF socialRelationshipChangeList = <<>> THEN <<>>
           ELSE <<InternalEvent("social_relationships_changed",
                                UserIds(socialRelationshipChangeList),
                                socialRelationshipChangeList, <<>>, NullCtx, FALSE, 0, 0)>>)

\* the fetched ids whose entry holds no valid user to compare with (line 1059-1060)
DiffInvalid(b, fetched) ==
    {u \in SeqToSet(UserIds(fetched)) \cap DOMAIN b.socialUserGraph :
        b.socialUserGraph[u].socialUser < 1}

DiffDangling(b, fetched) ==
    {u \in DOMAIN b.socialUserGraph \ SeqToSet(UserIds(fetched)) :
        b.socialUserGraph[u].socialUser = Dangling}

\* perform_diff, lines 1043-1113: compare, enqueue, back to normal
perform_diff_end ==
    /\ ~crashed
    /\ stateLock = "diff"
    /\ LET b == buf[inactiveBuffer]
       IN \/ /\ DiffInvalid(b, diffArg) \cup DiffDangling(b, diffArg) # {}
             /\ crashed' = TRUE
             /\ UNCHANGED <<state, stateLock, diffArg, internalQueue, nextSeq>>
          \/ \E masks \in [DiffInvalid(b, diffArg) -> ChangeMasks],
                removedDangling \in SUBSET DiffDangling(b, diffArg) :
               LET evts == DiffEvents(b, diffArg, masks, removedDangling)
               IN /\ internalQueue' = Push(internalQueue, evts, nextSeq)
                  /\ nextSeq' = nextSeq + Len(evts)
                  /\ state' = "normal"
                  /\ stateLock' = "none"
                  /\ diffArg' = <<>>
                  /\ crashed' = FALSE
    /\ UNCHANGED <<conn, pollResults, diffOut, applied, rta, initResult, mutexOwner,
                   lockThreads, doWork,
                   pollHistory, polling,
                   bufferCall,
                   userBuffer,
                   appliedThisFrame,
                   initPc, initUsers,
                   isInitialized, workerPc,
                   activeBuffer, inactiveBuffer, buf, socialEventQueue,
                   numEventsThisFrame, userAddedContext, subs, subTasks, unsubTasks,
                   graphTimer, refreshCount, fullFetch, tceResult, calls,
                   changeStruct, snapshot, lastApplied, pinned, allocs,
                   addedEvents, transportFailed, unsubscribed>>

\* ------------------------------------------------------ subscription tasks
\* setup_device_and_presence_subscriptions_helper, lines 861-886, for the next
\* user of one spawned task; a failed subscribe is logged and its payload stored
setup_device_and_presence_subscriptions ==
    /\ ~crashed
    /\ \E i \in 1..Len(subTasks) :
        LET task == subTasks[i]
            xuid == Head(task.users)
        IN /\ subs' = IF WeakLock(task.weak)
                      THEN MapPut(subs, xuid, [device |-> TRUE, title |-> TRUE])
                      ELSE subs
           /\ subTasks' = IF WeakLock(task.weak) /\ Len(task.users) > 1
                          THEN [subTasks EXCEPT ![i].users = Tail(@)]
                          ELSE RemoveAt(subTasks, i)
    /\ UNCHANGED <<conn, pollResults, diffOut, applied, rta, initResult, mutexOwner,
                   lockThreads, doWork,
                   pollHistory, polling,
                   bufferCall,
                   userBuffer,
                   appliedThisFrame,
                   crashed, initPc,
                   initUsers,
                   isInitialized, state,
                   stateLock, workerPc,
                   activeBuffer, inactiveBuffer, buf, internalQueue, socialEventQueue,
                   numEventsThisFrame, userAddedContext, unsubTasks,
                   graphTimer, refreshCount, fullFetch, diffArg, tceResult, calls,
                   changeStruct, snapshot, nextSeq, lastApplied, pinned, allocs,
                   addedEvents, transportFailed, unsubscribed>>

\* the task spawned by unsubscribe_users, lines 913-931: it returns at once
\* when the captured weak pointer yields no core
unsubscribe_users ==
    /\ ~crashed
    /\ \E i \in 1..Len(unsubTasks) :
        LET task == unsubTasks[i]
            gone == SeqToSet(task.users)
        IN /\ subs' = IF WeakLock(task.weak)
                      THEN [u \in (DOMAIN subs) \ gone |-> subs[u]]
                      ELSE subs
           /\ unsubscribed' = IF WeakLock(task.weak)
                              THEN [u \in Ids |-> IF u \in gone THEN unsubscribed[u] + 1
                                                  ELSE unsubscribed[u]]
                              ELSE unsubscribed
           /\ unsubTasks' = RemoveAt(unsubTasks, i)
    /\ UNCHANGED <<conn, pollResults, diffOut, applied, rta, initResult, mutexOwner,
                   lockThreads, doWork,
                   pollHistory, polling,
                   bufferCall,
                   userBuffer,
                   appliedThisFrame,
                   crashed, initPc,
                   initUsers,
                   isInitialized, state,
                   stateLock, workerPc,
                   activeBuffer, inactiveBuffer, buf, internalQueue, socialEventQueue,
                   numEventsThisFrame, userAddedContext, subTasks,
                   graphTimer, refreshCount, fullFetch, diffArg, tceResult, calls,
                   changeStruct, snapshot, nextSeq, lastApplied, pinned, allocs,
                   addedEvents, transportFailed>>

\* ------------------------------------------------------------ specification
Next ==
    \/ InitFetchFailed
    \/ InitBufferA
    \/ InitBufferB
    \/ InitSubscribed
    \/ InitSubscribeFailed
    \/ add_users
    \/ remove_users
    \/ do_event_work_begin
    \/ process_cached_events_apply
    \/ process_cached_events_done
    \/ process_events_apply
    \/ process_events_none
    \/ do_work
    \/ graph_fetch_succeeded
    \/ graph_fetch_failed
    \/ refresh_graph_begin
    \/ refresh_graph_end
    \/ full_fetch_dropped
    \/ perform_diff_begin
    \/ perform_diff_end
    \/ setup_device_and_presence_subscriptions
    \/ unsubscribe_users

Spec == Init /\ [][Next]_vars

\* ------------------------------------------------- the frames of the worker
\* the application calls add_users many times; the worker applies and replays
\* the events while do_work delimits the frames, every apply_event call counted
FrameNext ==
    \/ InitFetchFailed
    \/ InitBufferA
    \/ InitBufferB
    \/ InitSubscribed
    \/ InitSubscribeFailed
    \/ add_users_frame
    \/ do_event_work_begin
    \/ process_cached_events_apply_counted
    \/ process_cached_events_done
    \/ process_events_apply_counted
    \/ process_events_none
    \/ do_work_counted

FrameSpec == Init /\ [][FrameNext]_vars

\* ------------------------------------------------------ one buffer, call by call
\* the events that reach add_users_to_buffer and remove_users_from_buffer,
\* applied to one user_buffer: the initial list, then add_users calls whose
\* profiles arrive, and remove_users calls
AllOtherVars ==
    <<initPc, initUsers, isInitialized, state, stateLock, workerPc,
      activeBuffer, inactiveBuffer, buf, internalQueue, socialEventQueue,
      numEventsThisFrame, userAddedContext, subs, subTasks, unsubTasks,
      graphTimer, refreshCount, fullFetch, diffArg, tceResult, calls,
      changeStruct, snapshot, nextSeq, lastApplied, pinned, allocs,
      addedEvents, transportFailed, unsubscribed, appliedThisFrame,
      polling, pollHistory, doWork, lockThreads, mutexOwner, initResult, rta, applied,
      pollResults, conn>>

\* the smallest id whose entry has a slot pointer
FirstPopulated(b) ==
    LET S == {u \in DOMAIN b.socialUserGraph : b.socialUserGraph[u].socialUser # 0}
    IN CHOOSE u \in S : \A w \in S : u <= w

FirstUsers(first, n) == [i \in 1..n |-> SocialUser(first + i - 1, 0)]

\* user_buffers_holder::initialize_buffer with the list of the initial fetch
BufferInitialize ==
    /\ ~crashed
    /\ bufferCall.op = "none"
    /\ \E k \in 0..2 :
        /\ userBuffer' = initialize_buffer(userBuffer, FirstUsers(1, k), 0)
        /\ bufferCall' = BufferCall("initialize", UserIds(FirstUsers(1, k)),
                                    FirstUsers(1, k), <<>>, NoCall, 0, k + 1)
    /\ UNCHANGED crashed
    /\ UNCHANGED diffOut
    /\ UNCHANGED AllOtherVars

\* apply_event of a UsersAdded for n ids not seen before, then of the
\* UsersChanged that carries their profiles and the completion context of the
\* timer call: the entries are created, then add_users_to_buffer places them
BufferAdd ==
    /\ ~crashed
    /\ bufferCall.op # "none"
    /\ bufferCall.count < MaxBufferOps
    /\ \E n \in 1..EXTRA_USER_FREE_SPACE :
        /\ bufferCall.next + n - 1 <= MaxBufferId
        /\ LET users == FirstUsers(bufferCall.next, n)
               added == InternalEvent("users_added", UserIds(users), <<>>, <<>>,
                                      NullCtx, FALSE, 0, 0)
           IN \E o1 \in apply_event(added, userBuffer, TRUE, 0) :
              \E o2 \in apply_event(InternalEvent("users_changed", UserIds(users), users,
                                                  <<>>, o1.fireCtx, FALSE, 0, 0),
                                    o1.b, TRUE, o1.uac) :
                /\ crashed' = o2.crash
                /\ userBuffer' = IF o2.crash THEN userBuffer ELSE o2.b
                /\ bufferCall' = BufferCall("add", UserIds(users), users,
                                            o1.pub \o o2.pub, LastCall,
                                            bufferCall.count + 1, bufferCall.next + n)
    /\ UNCHANGED diffOut
    /\ UNCHANGED AllOtherVars

\* apply_event of a UsersRemoved for one id of the graph: at ref_count zero
\* remove_users_from_buffer frees its slot
BufferRemove ==
    /\ ~crashed
    /\ bufferCall.op # "none"
    /\ bufferCall.count < MaxBufferOps
    /\ \E u \in DOMAIN userBuffer.socialUserGraph :
        \E o \in apply_event(InternalEvent("users_removed", <<u>>, <<>>, <<>>,
                                           NullCtx, FALSE, 0, 0),
                             userBuffer, TRUE, 0) :
            /\ crashed' = o.crash
            /\ userBuffer' = IF o.crash THEN userBuffer ELSE o.b
            /\ bufferCall' = BufferCall("remove", <<u>>, <<>>, o.pub, LastCall,
                                        bufferCall.count + 1, bufferCall.next)
    /\ UNCHANGED diffOut
    /\ UNCHANGED AllOtherVars

\* apply_event of a UsersChanged that carries a profile of the first populated
\* id, as the fetch of a refresh enqueues it: the slot is overwritten in place
BufferChange ==
    /\ ~crashed
    /\ bufferCall.op # "none"
    /\ bufferCall.count < MaxBufferOps
    /\ \E u \in DOMAIN userBuffer.socialUserGraph : \E v \in Variants :
        /\ userBuffer.socialUserGraph[u].socialUser # 0
        /\ u = FirstPopulated(userBuffer)
        /\ \E o \in apply_event(InternalEvent("users_changed", <<u>>, <<SocialUser(u, v)>>,
                                               <<>>, NullCtx, FALSE, 0, 0),
                                 userBuffer, TRUE, 0) :
            /\ crashed' = o.crash
            /\ userBuffer' = IF o.crash THEN userBuffer ELSE o.b
            /\ bufferCall' = BufferCall("change", <<u>>, <<SocialUser(u, v)>>, o.pub,
                                        LastCall, bufferCall.count + 1, bufferCall.next)
    /\ UNCHANGED diffOut
    /\ UNCHANGED AllOtherVars

BufferNext ==
    \/ BufferInitialize
    \/ BufferAdd
    \/ BufferRemove
    \/ BufferChange

BufferSpec == Init /\ [][BufferNext]_vars

\* --------------------------------------------- one buffer, diffed call by call
\* the calls of the section above on one user_buffer, an add_users whose
\* profiles have not arrived yet, a profile that says the caller follows the
\* user no longer, and perform_diff on the list a full refresh fetched
\* the lists a full fetch can return: ascending ids of 1..MaxFetchedId
FetchedLists ==
    {[i \in 1..Cardinality(S) |-> SocialUser(SetToSeq(S)[i], 0)] : S \in SUBSET (1..MaxFetchedId)}

\* apply_event of a UsersAdded for one id not seen before: the entry is
\* created with an empty slot and waits for its profile
DiffUsersAdded ==
    /\ ~crashed
    /\ bufferCall.op # "none"
    /\ bufferCall.count < MaxBufferOps
    /\ bufferCall.next <= MaxBufferId
    /\ LET users == FirstUsers(bufferCall.next, 1)
       IN \E o \in apply_event(InternalEvent("users_added", UserIds(users), <<>>, <<>>,
                                             NullCtx, FALSE, 0, 0),
                               userBuffer, TRUE, 0) :
            /\ userBuffer' = o.b
            /\ bufferCall' = BufferCall("added", UserIds(users), <<>>, o.pub, LastCall,
                                        bufferCall.count + 1, bufferCall.next + 1)
    /\ UNCHANGED <<conn, pollResults, crashed, diffOut>>
    /\ UNCHANGED AllOtherVars

\* apply_event of a SocialRelationshipsChanged whose profile says that the
\* caller does not follow the first populated id: the slot is overwritten
DiffUnfollowed ==
    /\ ~crashed
    /\ bufferCall.op # "none"
    /\ bufferCall.count < MaxBufferOps
    /\ \E u \in DOMAIN userBuffer.socialUserGraph :
        /\ userBuffer.socialUserGraph[u].socialUser >= 1
        /\ u = FirstPopulated(userBuffer)
        /\ UserAt(userBuffer, u).following
        /\ LET user == [SocialUser(u, 0) EXCEPT !.following = FALSE]
           IN \E o \in apply_event(InternalEvent("social_relationships_changed", <<u>>,
                                                 <<user>>, <<>>, NullCtx, FALSE, 0, 0),
                                   userBuffer, TRUE, 0) :
                /\ crashed' = o.crash
                /\ userBuffer' = IF o.crash THEN userBuffer ELSE o.b
                /\ bufferCall' = BufferCall("unfollowed", <<u>>, <<user>>, o.pub, LastCall,
                                            bufferCall.count + 1, bufferCall.next)
    /\ UNCHANGED diffOut
    /\ UNCHANGED AllOtherVars

\* the presence records a poll returns and presence_timer_callback enqueues
\* (lines 1415-1441): one record for each tracked id, all with the same presence
PresenceLists(b) ==
    LET ids == SetToSeq(DOMAIN b.socialUserGraph)
    IN IF ids = <<>> THEN {}
       ELSE {[i \in 1..Len(ids) |-> [id |-> ids[i], presence |-> v]] : v \in Variants}

\* apply_event of a fresh PresenceChanged on the one buffer, at most twice
\* between two other calls
PresenceApply ==
    /\ ~crashed
    /\ bufferCall.op # "none"
    /\ bufferCall.op # "presence" \/ bufferCall.prev.op # "presence"
    /\ \E records \in PresenceLists(userBuffer) :
        LET ids == [i \in 1..Len(records) |-> records[i].id]
        IN \E o \in apply_event(InternalEvent("presence_changed", ids, <<>>, records,
                                              NullCtx, FALSE, 0, 0),
                                userBuffer, TRUE, 0) :
            /\ crashed' = o.crash
            /\ userBuffer' = IF o.crash THEN userBuffer ELSE o.b
            /\ bufferCall' = BufferCall("presence", ids, records, o.pub, LastCall,
                                        bufferCall.count, bufferCall.next)
    /\ UNCHANGED diffOut
    /\ UNCHANGED AllOtherVars

\* perform_diff, lines 1043-1113, on the one buffer: the events it enqueues,
\* or the crash of a read through a null or a freed pointer
DiffPerform ==
    /\ ~crashed
    /\ bufferCall.op # "none"
    /\ \E fetched \in FetchedLists :
        \/ /\ DiffInvalid(userBuffer, fetched) \cup DiffDangling(userBuffer, fetched) # {}
           /\ crashed' = TRUE
           /\ diffOut' = [done |-> TRUE, fetched |-> fetched, events |-> <<>>, crash |-> TRUE]
        \/ \E masks \in [DiffInvalid(userBuffer, fetched) -> ChangeMasks],
              removedDangling \in SUBSET DiffDangling(userBuffer, fetched) :
             /\ crashed' = FALSE
             /\ diffOut' = [done |-> TRUE, fetched |-> fetched,
                            events |-> DiffEvents(userBuffer, fetched, masks, removedDangling),
                            crash |-> FALSE]
    /\ UNCHANGED <<conn, pollResults, userBuffer, bufferCall>>
    /\ UNCHANGED AllOtherVars

\* the worker applies the next event the diff enqueued (process_events, lines
\* 356-369, then apply_event on the buffer the diff read)
DiffApply ==
    /\ ~crashed
    /\ diffOut.done
    /\ diffOut.events # <<>>
    /\ LET evt == Head(diffOut.events)
       IN \E o \in apply_event(evt, userBuffer, TRUE, 0) :
            /\ crashed' = o.crash
            /\ userBuffer' = IF o.crash THEN userBuffer ELSE o.b
            /\ bufferCall' = BufferCall(evt.type, evt.ids, evt.users, o.pub, LastCall,
                                        bufferCall.count, bufferCall.next)
            /\ diffOut' = [diffOut EXCEPT !.events = Tail(@)]
    /\ UNCHANGED AllOtherVars

\* one refresh is followed: the calls that reach the buffer before its diff,
\* the diff, then the events of the diff in the order of the queue
DiffNext ==
    \/ ~diffOut.done /\ BufferInitialize
    \/ ~diffOut.done /\ BufferAdd
    \/ ~diffOut.done /\ BufferRemove
    \/ ~diffOut.done /\ BufferChange
    \/ ~diffOut.done /\ DiffUsersAdded
    \/ ~diffOut.done /\ DiffUnfollowed
    \/ ~diffOut.done /\ PresenceApply
    \/ ~diffOut.done /\ DiffPerform
    \/ DiffApply

DiffSpec == Init /\ [][DiffNext]_vars

\* ------------------------------------------ do_work and the public event queue
\* do_work, lines 1129-1156: under the priority mutex the frame count is reset,
\* the buffers are swapped when allowed and the public events are copied to
\* the caller's vector; without events to hand out the call returns
do_work_begin ==
    /\ ~crashed
    /\ PriorityMutexFree
    /\ numEventsThisFrame' = 0
    /\ LET roles == IF shouldSwap(state, inactiveBuffer, buf)
                    THEN swap(activeBuffer)
                    ELSE [active |-> activeBuffer, inactive |-> inactiveBuffer]
       IN /\ activeBuffer' = roles.active
          /\ inactiveBuffer' = roles.inactive
          /\ changeStruct' = roles.active
          /\ snapshot' = IF roles.active = "null" THEN [u \in {} |-> 0]
                         ELSE GraphView(buf[roles.active])
    /\ doWork' = IF shouldDrain(socialEventQueue, state)
                 THEN [pc |-> "copied", socialEvents |-> socialEventQueue]
                 ELSE [pc |-> "idle", socialEvents |-> <<>>]
    /\ UNCHANGED <<conn, pollResults, diffOut, applied, rta, initResult, mutexOwner,
                   lockThreads, crashed, initPc,
                   initUsers,
                   isInitialized, state,
                   stateLock, workerPc,
                   buf, internalQueue, socialEventQueue,
                   userAddedContext, subs, subTasks, unsubTasks,
                   graphTimer, refreshCount, fullFetch, diffArg, tceResult, calls,
                   nextSeq, lastApplied, pinned, allocs,
                   addedEvents, transportFailed, unsubscribed, appliedThisFrame,
                   userBuffer, bufferCall, polling, pollHistory>>

\* do_work, lines 1157-1164: the queue is cleared and the call returns
do_work_clear ==
    /\ ~crashed
    /\ doWork.pc = "copied"
    /\ socialEventQueue' = <<>>
    /\ doWork' = [doWork EXCEPT !.pc = "idle"]
    /\ UNCHANGED <<conn, pollResults, diffOut, applied, rta, initResult, mutexOwner,
                   lockThreads, crashed, initPc,
                   initUsers,
                   isInitialized, state,
                   stateLock, workerPc,
                   activeBuffer, inactiveBuffer, buf, internalQueue,
                   numEventsThisFrame, userAddedContext, subs, subTasks, unsubTasks,
                   graphTimer, refreshCount, fullFetch, diffArg, tceResult, calls,
                   changeStruct, snapshot, nextSeq, lastApplied, pinned, allocs,
                   addedEvents, transportFailed, unsubscribed, appliedThisFrame,
                   userBuffer, bufferCall, polling, pollHistory>>

DeliveryNext ==
    \/ InitFetchFailed
    \/ InitBufferA
    \/ InitBufferB
    \/ InitSubscribed
    \/ InitSubscribeFailed
    \/ add_users
    \/ remove_users
    \/ do_event_work_begin
    \/ process_cached_events_apply
    \/ process_cached_events_done
    \/ process_events_apply
    \/ process_events_none
    \/ graph_fetch_succeeded
    \/ graph_fetch_failed
    \/ do_work_begin
    \/ do_work_clear

DeliverySpec == Init /\ [][DeliveryNext]_vars

\* ------------------------------------------------------- mirrored application
MirrorNext ==
    \/ InitFetchFailed
    \/ InitBufferA
    \/ InitBufferB
    \/ InitSubscribed
    \/ InitSubscribeFailed
    \/ add_users
    \/ remove_users
    \/ do_event_work_begin
    \/ process_cached_events_apply_logged
    \/ process_cached_events_done
    \/ process_events_apply_logged
    \/ process_events_none
    \/ do_work
    \/ graph_fetch_succeeded
    \/ graph_fetch_failed
    \/ refresh_graph_begin
    \/ refresh_graph_end
    \/ full_fetch_dropped
    \/ perform_diff_begin
    \/ perform_diff_end
    \/ setup_device_and_presence_subscriptions
    \/ unsubscribe_users

MirrorSpec == Init /\ [][MirrorNext]_vars

\* ------------------------------------------------------ progress of the frame
\* a do_work call made while the worker is between two do_event_work calls:
\* the worker sleeps 30 ms with the state normal whenever do_event_work
\* returned false (lines 164-183), the application calls do_work every frame
do_work_while_normal == state = "normal" /\ do_work

ProgressNext ==
    \/ InitFetchFailed
    \/ InitBufferA
    \/ InitBufferB
    \/ InitSubscribed
    \/ InitSubscribeFailed
    \/ add_users_frame
    \/ do_event_work_begin
    \/ process_cached_events_apply
    \/ process_cached_events_done
    \/ process_events_apply
    \/ process_events_none
    \/ do_work
    \/ graph_fetch_succeeded

\* the worker task loops for ever over do_event_work (line 164), so each of its
\* steps is taken once it can be; do_work is called again and again, and again
\* and again while the worker sleeps
ProgressSpec ==
    /\ Init
    /\ [][ProgressNext]_vars
    /\ WF_vars(do_event_work_begin)
    /\ WF_vars(process_cached_events_apply)
    /\ WF_vars(process_cached_events_done)
    /\ WF_vars(process_events_apply)
    /\ WF_vars(process_events_none)
    /\ WF_vars(do_work)
    /\ SF_vars(do_work_while_normal)

\* ------------------------------------------------------------ RTA connection
\* real_time_activity_connection_state
RtaStates == {"connected", "connecting", "disconnected"}

\* setup_rta_subscriptions lines 803-815: the ids of the inactive graph whose
\* slot pointer is set
PopulatedIds(b) ==
    SetToSeq({u \in DOMAIN b.socialUserGraph : b.socialUserGraph[u].socialUser # 0})

\* lines 1338 and 1348: the branch taken by every state but disconnected
shouldResubscribe(rtaState, wasDisconnected) ==
    rtaState # "disconnected" /\ wasDisconnected

\* handle_rta_connection_state_change with setup_rta_subscriptions(true): a
\* disconnect latches the flag; the next callback of another state clears it,
\* starts the task that subscribes the populated ids of the inactive graph and
\* registers the handlers again (not when there is no inactive buffer, line 799);
\* reading the id through a slot pointer into a freed slab is undefined
handle_rta_connection_state_change ==
    /\ ~crashed
    /\ rta.callbacks + rta.resyncFires < MaxRtaCallbacks
    /\ \E rtaState \in RtaStates :
        IF rtaState = "disconnected"
        THEN /\ rta' = [rta EXCEPT !.wasDisconnected = TRUE, !.last = rtaState,
                                    !.callbacks = @ + 1]
             /\ UNCHANGED <<crashed, subTasks>>
        ELSE IF ~shouldResubscribe(rtaState, rta.wasDisconnected)
        THEN /\ rta' = [rta EXCEPT !.last = rtaState, !.callbacks = @ + 1]
             /\ UNCHANGED <<crashed, subTasks>>
        ELSE IF inactiveBuffer = "null"
        THEN /\ rta' = [rta EXCEPT !.wasDisconnected = FALSE, !.last = rtaState,
                                    !.callbacks = @ + 1]
             /\ UNCHANGED <<crashed, subTasks>>
        ELSE /\ rta' = [rta EXCEPT !.wasDisconnected = FALSE, !.last = rtaState,
                                    !.callbacks = @ + 1, !.handlers = @ + 1]
             /\ \E fault \in BOOLEAN :
                  /\ fault => \E u \in DOMAIN buf[inactiveBuffer].socialUserGraph :
                                 buf[inactiveBuffer].socialUserGraph[u].socialUser = Dangling
                  /\ crashed' = fault
                  /\ subTasks' = IF fault THEN subTasks
                                 ELSE SpawnTask(subTasks, "this",
                                                PopulatedIds(buf[inactiveBuffer]))
    /\ UNCHANGED <<conn, pollResults, diffOut, applied, initResult, mutexOwner,
                   lockThreads, doWork,
                   pollHistory, polling,
                   bufferCall, userBuffer, appliedThisFrame, initPc, initUsers,
                   isInitialized, state, stateLock, workerPc,
                   activeBuffer, inactiveBuffer, buf, internalQueue, socialEventQueue,
                   numEventsThisFrame, userAddedContext, subs, unsubTasks,
                   graphTimer, refreshCount, fullFetch, diffArg, tceResult, calls,
                   changeStruct, snapshot, nextSeq, lastApplied, pinned, allocs,
                   addedEvents, transportFailed, unsubscribed>>

\* the resync handler registered at lines 823-831: the RTA service asks for a
\* resync and m_resyncRefreshTimer is fired, which calls refresh_graph
resync_handler ==
    /\ ~crashed
    /\ rta.handlers >= 1
    /\ rta.callbacks + rta.resyncFires < MaxRtaCallbacks
    /\ rta' = [rta EXCEPT !.resyncFires = @ + 1]
    /\ UNCHANGED <<conn, pollResults, diffOut, applied, initResult, mutexOwner,
                   lockThreads, doWork,
                   pollHistory, polling,
                   bufferCall, userBuffer, appliedThisFrame, crashed, initPc, initUsers,
                   isInitialized, state, stateLock, workerPc,
                   activeBuffer, inactiveBuffer, buf, internalQueue, socialEventQueue,
                   numEventsThisFrame, userAddedContext, subs, subTasks, unsubTasks,
                   graphTimer, refreshCount, fullFetch, diffArg, tceResult, calls,
                   changeStruct, snapshot, nextSeq, lastApplied, pinned, allocs,
                   addedEvents, transportFailed, unsubscribed>>

RtaNext ==
    \/ InitFetchFailed
    \/ InitBufferA
    \/ InitBufferB
    \/ InitSubscribed
    \/ InitSubscribeFailed
    \/ add_users
    \/ remove_users
    \/ do_event_work_begin
    \/ process_cached_events_apply
    \/ process_cached_events_done
    \/ process_events_apply
    \/ process_events_none
    \/ do_work
    \/ graph_fetch_succeeded
    \/ graph_fetch_failed
    \/ setup_device_and_presence_subscriptions
    \/ handle_rta_connection_state_change
    \/ resync_handler

RtaSpec == Init /\ [][RtaNext]_vars

\* ------------------------------------------------- the result of initialize()
\* what get_social_graph can complete with
FetchResults == {"no_error", "http_status_424_failed_dependency",
                 "http_status_500_internal_server_error", "http_network_error"}

\* variant: only a successful fetch lets the initialization go on
FetchTolerated_success_only(err) == err = "no_error"

\* line 210: "since this is initializing the social graph a 424 is allowed"
FetchTolerated(err) == err \in {"no_error", "http_status_424_failed_dependency"}

\* the payload of a result: the list on success, nothing with an error
FetchPayloads(err) == IF err = "no_error" THEN InitLists ELSE {<<>>}

\* lines 210-213: the continuation returns the error of the fetch
initialize_fetch_failed ==
    \E err \in FetchResults :
        /\ ~FetchTolerated(err)
        /\ InitFetchFailed_step
        /\ initResult' = [fetch |-> err, returned |-> err]

\* lines 210-215: the error is tolerated, the buffers are built from the payload
initialize_fetch_tolerated ==
    \E err \in FetchResults :
        /\ FetchTolerated(err)
        /\ InitBufferA_step(FetchPayloads(err))
        /\ initResult' = [fetch |-> err, returned |-> "pending"]

\* lines 239-243, 258: m_isInitialized is set and the continuation returns success
initialize_succeeded ==
    /\ InitSubscribed_step
    /\ initResult' = [initResult EXCEPT !.returned = "no_error"]

\* lines 225-228: the continuation returns runtime_error
initialize_subscription_failed ==
    /\ InitSubscribeFailed_step
    /\ initResult' = [initResult EXCEPT !.returned = "runtime_error"]

InitializeNext ==
    \/ initialize_fetch_failed
    \/ initialize_fetch_tolerated
    \/ InitBufferB
    \/ initialize_succeeded
    \/ initialize_subscription_failed
    \/ add_users
    \/ remove_users
    \/ do_event_work_begin
    \/ process_cached_events_apply
    \/ process_cached_events_done
    \/ process_events_apply
    \/ process_events_none
    \/ do_work
    \/ graph_fetch_succeeded
    \/ graph_fetch_failed

InitializeSpec == Init /\ [][InitializeNext]_vars

\* --------------------------------------------------------- mutexes and calls
\* the lock traces of the functions: the acquisitions of the lock_guards, the
\* releases at the end of their scopes, and the outbound operations (RTA
\* activation, subscriptions, HTTP fetches) in the order of the code
Acq(m) == [kind |-> "acquire", what |-> m]
Rel(m) == [kind |-> "release", what |-> m]
Out(op) == [kind |-> "outbound", what |-> op]

\* a scoped block { lock_guard graph; lock_guard priority; ... }
GraphPriorityBlock(body) ==
    <<Acq("graph"), Acq("priority")>> \o body \o <<Rel("priority"), Rel("graph")>>

\* do_event_work, lines 270-320, with process_cached_events (lines 350-352)
do_event_work_locks ==
    <<Acq("state")>> \o GraphPriorityBlock(<<>>) \o GraphPriorityBlock(<<>>)
        \o <<Rel("state")>>

\* do_work, line 1129
do_work_locks == <<Acq("priority"), Rel("priority")>>

\* is_initialized, active_buffer_social_graph, are_events_empty
is_initialized_locks == GraphPriorityBlock(<<>>)

\* the continuation of initialize, lines 202-259, for one fetched user
initialize_locks ==
    <<Out("subscribe_to_device_presence_change"),
      Out("subscribe_to_title_presence_change")>>
        \o GraphPriorityBlock(<<>>) \o GraphPriorityBlock(<<>>)

\* setup_rta_subscriptions, lines 777-854
setup_rta_subscriptions_locks ==
    GraphPriorityBlock(<<Out("real_time_activity_service.activate"),
                          Out("subscribe_to_social_relationship_change")>>)

\* handle_rta_connection_state_change on a reconnect, lines 1326-1358
handle_rta_connection_state_change_locks ==
    GraphPriorityBlock(<<>>) \o GraphPriorityBlock(<<>>) \o setup_rta_subscriptions_locks

\* setup_device_and_presence_subscriptions_helper, lines 856-887, one user
setup_device_and_presence_subscriptions_locks ==
    <<Out("subscribe_to_device_presence_change"),
      Out("subscribe_to_title_presence_change")>> \o GraphPriorityBlock(<<>>)

\* the task of unsubscribe_users, lines 913-930: nothing when the weak pointer
\* does not lock
unsubscribe_users_locks(weak) ==
    IF WeakLock(weak)
    THEN GraphPriorityBlock(<<Out("unsubscribe_from_device_presence_change"),
                               Out("unsubscribe_from_title_presence_change")>>)
    ELSE <<>>

\* refresh_graph, lines 956-1022
refresh_graph_locks ==
    <<Acq("state")>> \o GraphPriorityBlock(<<>>) \o GraphPriorityBlock(<<>>)
        \o <<Rel("state"), Out("get_social_graph")>>

\* perform_diff, lines 1024-1114
perform_diff_locks ==
    <<Acq("state")>> \o GraphPriorityBlock(<<>>) \o GraphPriorityBlock(<<>>)
        \o <<Rel("state")>>

\* presence_timer_callback and its continuation, lines 1375-1460
presence_timer_callback_locks ==
    <<Out("get_presence_for_multiple_users"), Acq("state")>>
        \o GraphPriorityBlock(<<>>) \o GraphPriorityBlock(<<>>) \o <<Rel("state")>>

\* social_graph_timer_callback, lines 1166-1213
social_graph_timer_callback_locks == <<Out("get_social_graph")>>

\* the delayed task of the polling and presence_refresh_callback, lines 1491-1548
presence_refresh_callback_locks ==
    <<Acq("state"), Rel("state"), Acq("state")>>
        \o GraphPriorityBlock(<<>>) \o GraphPriorityBlock(<<>>) \o <<Rel("state")>>

\* variant: the cancel flag is written inside the graph and priority block
enable_rich_presence_polling_locks_nested ==
    GraphPriorityBlock(<<Acq("state"), Rel("state")>>)

\* enable_rich_presence_polling, lines 1550-1576
enable_rich_presence_polling_locks ==
    GraphPriorityBlock(<<>>) \o <<Acq("state"), Rel("state")>>

\* ~social_graph, lines 62-84
destructor_locks ==
    GraphPriorityBlock(<<Out("real_time_activity_service.deactivate")>>)

LockTrace(fn) ==
    CASE fn = "do_event_work" -> do_event_work_locks
      [] fn = "do_work" -> do_work_locks
      [] fn = "is_initialized" -> is_initialized_locks
      [] fn = "initialize" -> initialize_locks
      [] fn = "setup_rta_subscriptions" -> setup_rta_subscriptions_locks
      [] fn = "handle_rta_connection_state_change" -> handle_rta_connection_state_change_locks
      [] fn = "setup_device_and_presence_subscriptions" ->
             setup_device_and_presence_subscriptions_locks
      [] fn = "unsubscribe_users" -> unsubscribe_users_locks("empty")
      [] fn = "refresh_graph" -> refresh_graph_locks
      [] fn = "perform_diff" -> perform_diff_locks
      [] fn = "presence_timer_callback" -> presence_timer_callback_locks
      [] fn = "social_graph_timer_callback" -> social_graph_timer_callback_locks
      [] fn = "presence_refresh_callback" -> presence_refresh_callback_locks
      [] fn = "enable_rich_presence_polling" -> enable_rich_presence_polling_locks
      [] fn = "~social_graph" -> destructor_locks
      [] OTHER -> <<>>

\* the functions a thread runs
ThreadFunctions(t) ==
    CASE t = "application" -> {"do_work", "is_initialized", "enable_rich_presence_polling",
                               "setup_rta_subscriptions"}
      [] t = "worker" -> {"do_event_work"}
      [] t = "pool1" -> {"initialize", "refresh_graph", "perform_diff",
                         "social_graph_timer_callback", "unsubscribe_users"}
      [] t = "pool2" -> {"presence_timer_callback", "presence_refresh_callback",
                         "setup_device_and_presence_subscriptions"}
      [] t = "rta" -> {"handle_rta_connection_state_change"}
      [] OTHER -> {"~social_graph"}

\* the operation a thread is about to perform
NextOp(t) ==
    IF lockThreads[t].pc = 0 THEN [kind |-> "none", what |-> "none"]
    ELSE LockTrace(lockThreads[t].fn)[lockThreads[t].pc]

Advance(t) ==
    [lockThreads EXCEPT ![t] =
        IF @.pc = Len(LockTrace(@.fn))
        THEN (IF @.fn = "~social_graph" THEN [fn |-> "destroyed", pc |-> 0] ELSE Idle)
        ELSE [@ EXCEPT !.pc = @ + 1]]

LockVarsUnchanged ==
    UNCHANGED <<crashed, initPc, initUsers, isInitialized, state, stateLock, workerPc,
                activeBuffer, inactiveBuffer, buf, internalQueue, socialEventQueue,
                numEventsThisFrame, userAddedContext, subs, subTasks, unsubTasks,
                graphTimer, refreshCount, fullFetch, diffArg, tceResult, calls,
                changeStruct, snapshot, nextSeq, lastApplied, pinned, allocs,
                addedEvents, transportFailed, unsubscribed, appliedThisFrame,
                userBuffer, bufferCall, polling, pollHistory, doWork, initResult, rta,
                applied, diffOut, pollResults, conn>>

\* a thread enters a function; the destructor runs when every other thread
\* has let go of the object, and nothing runs after it
EnterFunction ==
    \E t \in Threads : \E fn \in ThreadFunctions(t) :
        /\ lockThreads[t] = Idle
        /\ lockThreads["owner"] = Idle
        /\ fn = "~social_graph" => \A w \in Threads : lockThreads[w] = Idle
        /\ LockTrace(fn) # <<>>
        /\ lockThreads' = [lockThreads EXCEPT ![t] = [fn |-> fn, pc |-> 1]]
        /\ UNCHANGED mutexOwner
        /\ LockVarsUnchanged

\* std::lock_guard<std::recursive_mutex>: the mutex is free or the thread's own
AcquireMutex ==
    \E t \in Threads :
        /\ NextOp(t).kind = "acquire"
        /\ mutexOwner[NextOp(t).what].owner \in {"none", t}
        /\ mutexOwner' = [mutexOwner EXCEPT ![NextOp(t).what] =
                             [owner |-> t, count |-> @.count + 1]]
        /\ lockThreads' = Advance(t)
        /\ LockVarsUnchanged

\* the end of the scope of a lock_guard
ReleaseMutex ==
    \E t \in Threads :
        /\ NextOp(t).kind = "release"
        /\ mutexOwner' = [mutexOwner EXCEPT ![NextOp(t).what] =
                             IF @.count = 1 THEN [owner |-> "none", count |-> 0]
                             ELSE [@ EXCEPT !.count = @ - 1]]
        /\ lockThreads' = Advance(t)
        /\ LockVarsUnchanged

\* a call to the RTA service, the presence service or PeopleHub
OutboundCall ==
    \E t \in Threads :
        /\ NextOp(t).kind = "outbound"
        /\ lockThreads' = Advance(t)
        /\ UNCHANGED mutexOwner
        /\ LockVarsUnchanged

LockNext ==
    \/ EnterFunction
    \/ AcquireMutex
    \/ ReleaseMutex
    \/ OutboundCall

LockSpec == Init /\ [][LockNext]_vars

\* ------------------------------------------------------ rich presence polling
\* the members a polling step leaves alone
NonPollingVars ==
    <<crashed, initPc, initUsers, isInitialized, state, stateLock, workerPc,
      activeBuffer, inactiveBuffer, buf, internalQueue, socialEventQueue,
      numEventsThisFrame, userAddedContext, subs, subTasks, unsubTasks,
      graphTimer, refreshCount, fullFetch, diffArg, tceResult, calls,
      changeStruct, snapshot, nextSeq, lastApplied, pinned, allocs,
      addedEvents, transportFailed, unsubscribed, appliedThisFrame,
      userBuffer, bufferCall, doWork, lockThreads, mutexOwner, initResult, rta, applied,
      diffOut, pollResults, conn>>

\* variant: the cancel flag is not looked at
shouldExit_never(shouldCancel) == FALSE

\* line 1539: the scheduled iteration returns when the flag is set
shouldExit(shouldCancel) == shouldCancel

\* presence_refresh_callback, lines 1491-1548: with the state mutex held the
\* ids of the inactive buffer are fired on the polling timer (a poll), then
\* the next iteration is scheduled TIME_PER_CALL_SEC later
presence_refresh_callback(p, h, inactive) ==
    [polling |-> [p EXCEPT !.scheduled = @ + 1],
     pollHistory |-> [h EXCEPT !.polls = IF inactive # "null" THEN @ + 1 ELSE @]]

\* enable_rich_presence_polling(true), lines 1550-1570
enable_rich_presence_polling_true ==
    /\ ~crashed
    /\ stateLock = "none"
    /\ pollHistory.calls < MaxEnableCalls
    /\ pollHistory.polls < MaxPolls
    /\ LET h == [pollHistory EXCEPT !.calls = @ + 1]
           p == [polling EXCEPT !.isPollingRichPresence = TRUE]
       IN IF ~polling.isPollingRichPresence
          THEN LET r == presence_refresh_callback([p EXCEPT !.shouldCancel = FALSE],
                                                  h, inactive_buffer)
               IN polling' = r.polling /\ pollHistory' = r.pollHistory
          ELSE polling' = p /\ pollHistory' = h
    /\ UNCHANGED NonPollingVars

\* enable_rich_presence_polling(false), lines 1550-1563 and 1571-1575
enable_rich_presence_polling_false ==
    /\ ~crashed
    /\ stateLock = "none"
    /\ pollHistory.calls < MaxEnableCalls
    /\ polling' = [polling EXCEPT !.isPollingRichPresence = FALSE,
                                  !.shouldCancel = TRUE]
    /\ pollHistory' = [pollHistory EXCEPT !.calls = @ + 1]
    /\ UNCHANGED NonPollingVars

\* the delayed task, lines 1531-1542: the scheduled iteration looks at the
\* cancel flag under the state mutex and returns, or goes on to poll
polling_iteration_check ==
    /\ ~crashed
    /\ stateLock = "none"
    /\ polling.scheduled > 0
    /\ IF shouldExit(polling.shouldCancel)
       THEN polling' = [polling EXCEPT !.scheduled = @ - 1]
       ELSE /\ pollHistory.polls < MaxPolls
            /\ polling' = [polling EXCEPT !.scheduled = @ - 1, !.running = @ + 1]
    /\ UNCHANGED pollHistory
    /\ UNCHANGED NonPollingVars

\* the delayed task, line 1543: the iteration that passed the check polls and
\* schedules the next one
polling_iteration_run ==
    /\ ~crashed
    /\ stateLock = "none"
    /\ polling.running > 0
    /\ LET r == presence_refresh_callback([polling EXCEPT !.running = @ - 1],
                                          pollHistory, inactive_buffer)
       IN polling' = r.polling /\ pollHistory' = r.pollHistory
    /\ UNCHANGED NonPollingVars

PollNext ==
    \/ InitFetchFailed
    \/ InitBufferA
    \/ InitBufferB
    \/ InitSubscribed
    \/ InitSubscribeFailed
    \/ enable_rich_presence_polling_true
    \/ enable_rich_presence_polling_false
    \/ polling_iteration_check
    \/ polling_iteration_run

\* the delayed tasks are run by the thread pool once their time has come
PollSpec ==
    /\ Init
    /\ [][PollNext]_vars
    /\ WF_vars(polling_iteration_check)
    /\ WF_vars(polling_iteration_run)

\* ------------------------------------------------ the result of a presence poll
\* presence_timer_callback, lines 1379-1460, for the oldest poll whose result
\* is pending: nothing is asked for an empty list, a failed call is logged, and
\* the continuation of a successful call enqueues the records as PresenceChanged
\* and sets the state to refresh and back to normal under the state mutex
presence_timer_callback ==
    /\ ~crashed
    /\ pollResults < pollHistory.polls
    /\ pollResults' = pollResults + 1
    /\ LET users == IF inactive_buffer = "null" THEN <<>>
                    ELSE PopulatedIds(buf[inactive_buffer])
       IN \/ /\ UNCHANGED <<internalQueue, nextSeq, state>>
          \/ /\ users # <<>>
             /\ stateLock = "none"
             /\ inactive_buffer # "null"
             /\ \E v \in Variants :
                 internalQueue' = Push(internalQueue,
                     <<InternalEvent("presence_changed", <<>>, <<>>,
                                     [i \in 1..Len(users) |-> [id |-> users[i], presence |-> v]],
                                     NullCtx, FALSE, 0, 0)>>, nextSeq)
             /\ nextSeq' = nextSeq + 1
             /\ state' = "normal"
    /\ UNCHANGED <<conn, polling, pollHistory, transportFailed, crashed, initPc, initUsers,
                   isInitialized, stateLock, workerPc, activeBuffer, inactiveBuffer, buf,
                   socialEventQueue, numEventsThisFrame, userAddedContext, subs,
                   subTasks, unsubTasks, graphTimer, refreshCount, fullFetch, diffArg,
                   tceResult, calls, changeStruct, snapshot, lastApplied, pinned,
                   allocs, addedEvents, unsubscribed, appliedThisFrame, userBuffer,
                   bufferCall, doWork, lockThreads, mutexOwner, initResult, rta,
                   applied, diffOut>>

PollResultNext ==
    \/ InitFetchFailed
    \/ InitBufferA
    \/ InitBufferB
    \/ InitSubscribed
    \/ InitSubscribeFailed
    \/ enable_rich_presence_polling_true
    \/ enable_rich_presence_polling_false
    \/ polling_iteration_check
    \/ polling_iteration_run
    \/ presence_timer_callback

PollResultSpec == Init /\ [][PollResultNext]_vars

\* ------------------------------------------- the state under the state mutex
\* the operations that set m_socialGraphState, each as the steps between which
\* other threads can look at the state: the holder of the state mutex sets the
\* state, works, and sets it back before the lock_guard's scope ends
\* enable_rich_presence_polling(true) while polling is off, lines 1555-1569:
\* the flag is cleared and presence_refresh_callback is about to be called
enable_rich_presence_polling_true_call ==
    /\ ~crashed
    /\ stateLock = "none"
    /\ pollHistory.calls < MaxEnableCalls
    /\ pollHistory.polls < MaxPolls
    /\ ~polling.isPollingRichPresence
    /\ pollHistory' = [pollHistory EXCEPT !.calls = @ + 1]
    /\ polling' = [polling EXCEPT !.isPollingRichPresence = TRUE,
                                  !.shouldCancel = FALSE, !.running = @ + 1]
    /\ UNCHANGED <<conn, crashed, initPc, initUsers, isInitialized, state, stateLock,
                   workerPc, activeBuffer, inactiveBuffer, buf, internalQueue,
                   socialEventQueue, numEventsThisFrame, userAddedContext, subs,
                   subTasks, unsubTasks, graphTimer, refreshCount, fullFetch, diffArg,
                   tceResult, calls, changeStruct, snapshot, nextSeq, lastApplied,
                   pinned, allocs, addedEvents, transportFailed, unsubscribed,
                   appliedThisFrame, userBuffer, bufferCall, doWork, lockThreads,
                   mutexOwner, initResult, rta, applied, diffOut, pollResults>>

\* presence_refresh_callback, lines 1494-1507: the state mutex is taken and,
\* when the buffers exist, the state is set to refresh
presence_refresh_callback_begin ==
    /\ ~crashed
    /\ stateLock = "none"
    /\ PriorityMutexFree
    /\ polling.running > 0
    /\ pollHistory.polls < MaxPolls
    /\ stateLock' = "presence_refresh"
    /\ state' = IF inactive_buffer # "null" THEN "refresh" ELSE state
    /\ UNCHANGED <<conn, crashed, initPc, initUsers, isInitialized, workerPc, activeBuffer,
                   inactiveBuffer, buf, internalQueue, socialEventQueue,
                   numEventsThisFrame, userAddedContext, subs, subTasks, unsubTasks,
                   graphTimer, refreshCount, fullFetch, diffArg, tceResult, calls,
                   changeStruct, snapshot, nextSeq, lastApplied, pinned, allocs,
                   addedEvents, transportFailed, unsubscribed, appliedThisFrame,
                   userBuffer, bufferCall, polling, pollHistory, doWork, lockThreads,
                   mutexOwner, initResult, rta, applied, diffOut, pollResults>>

\* variant: the state is left as the first block set it
presence_refresh_state_after_kept(inactive, st) == st

\* presence_refresh_callback, lines 1517-1523: inside the branch that set the
\* state to refresh, the state is set back to normal
presence_refresh_state_after(inactive, st) ==
    IF inactive # "null" THEN "normal" ELSE st

\* presence_refresh_callback, lines 1508-1547: the ids are fired on the polling
\* timer, the state is set back to normal, the mutex is released and the next
\* iteration is scheduled
presence_refresh_callback_end ==
    /\ ~crashed
    /\ stateLock = "presence_refresh"
    /\ PriorityMutexFree
    /\ LET r == presence_refresh_callback([polling EXCEPT !.running = @ - 1],
                                          pollHistory, inactive_buffer)
       IN polling' = r.polling /\ pollHistory' = r.pollHistory
    /\ state' = presence_refresh_state_after(inactive_buffer, state)
    /\ stateLock' = "none"
    /\ UNCHANGED <<conn, crashed, initPc, initUsers, isInitialized, workerPc, activeBuffer,
                   inactiveBuffer, buf, internalQueue, socialEventQueue,
                   numEventsThisFrame, userAddedContext, subs, subTasks, unsubTasks,
                   graphTimer, refreshCount, fullFetch, diffArg, tceResult, calls,
                   changeStruct, snapshot, nextSeq, lastApplied, pinned, allocs,
                   addedEvents, transportFailed, unsubscribed, appliedThisFrame,
                   userBuffer, bufferCall, doWork, lockThreads, mutexOwner, initResult,
                   rta, applied, diffOut, pollResults>>

\* the continuation of presence_timer_callback, lines 1393-1413: the state
\* mutex is taken; without buffers it returns, otherwise the state is refresh
presence_timer_callback_begin ==
    /\ ~crashed
    /\ stateLock = "none"
    /\ PriorityMutexFree
    /\ pollResults < pollHistory.polls
    /\ IF inactive_buffer = "null"
       THEN /\ pollResults' = pollResults + 1
            /\ UNCHANGED <<state, stateLock>>
       ELSE /\ state' = "refresh"
            /\ stateLock' = "presence_timer"
            /\ UNCHANGED pollResults
    /\ UNCHANGED <<conn, crashed, initPc, initUsers, isInitialized, workerPc, activeBuffer,
                   inactiveBuffer, buf, internalQueue, socialEventQueue,
                   numEventsThisFrame, userAddedContext, subs, subTasks, unsubTasks,
                   graphTimer, refreshCount, fullFetch, diffArg, tceResult, calls,
                   changeStruct, snapshot, nextSeq, lastApplied, pinned, allocs,
                   addedEvents, transportFailed, unsubscribed, appliedThisFrame,
                   userBuffer, bufferCall, polling, pollHistory, doWork, lockThreads,
                   mutexOwner, initResult, rta, applied, diffOut>>

\* the continuation of presence_timer_callback, lines 1415-1453: the records
\* are enqueued as PresenceChanged and the state is set back to normal
presence_timer_callback_end ==
    /\ ~crashed
    /\ stateLock = "presence_timer"
    /\ PriorityMutexFree
    /\ \E v \in Variants :
        LET users == PopulatedIds(buf[inactive_buffer])
        IN internalQueue' = Push(internalQueue,
               <<InternalEvent("presence_changed", <<>>, <<>>,
                               [i \in 1..Len(users) |-> [id |-> users[i], presence |-> v]],
                               NullCtx, FALSE, 0, 0)>>, nextSeq)
    /\ nextSeq' = nextSeq + 1
    /\ pollResults' = pollResults + 1
    /\ state' = "normal"
    /\ stateLock' = "none"
    /\ UNCHANGED <<conn, crashed, initPc, initUsers, isInitialized, workerPc, activeBuffer,
                   inactiveBuffer, buf, socialEventQueue, numEventsThisFrame,
                   userAddedContext, subs, subTasks, unsubTasks, graphTimer,
                   refreshCount, fullFetch, diffArg, tceResult, calls, changeStruct,
                   snapshot, lastApplied, pinned, allocs, addedEvents, transportFailed,
                   unsubscribed, appliedThisFrame, userBuffer, bufferCall, polling,
                   pollHistory, doWork, lockThreads, mutexOwner, initResult, rta,
                   applied, diffOut>>

StateNext ==
    \/ InitFetchFailed
    \/ InitBufferA
    \/ InitBufferB
    \/ InitSubscribed
    \/ InitSubscribeFailed
    \/ do_event_work_begin
    \/ process_cached_events_apply
    \/ process_cached_events_done
    \/ process_events_apply
    \/ process_events_none
    \/ do_work
    \/ refresh_graph_begin
    \/ refresh_graph_end
    \/ full_fetch_dropped
    \/ perform_diff_begin
    \/ perform_diff_end
    \/ enable_rich_presence_polling_true_call
    \/ presence_refresh_callback_begin
    \/ presence_refresh_callback_end
    \/ presence_timer_callback_begin
    \/ presence_timer_callback_end

StateSpec == Init /\ [][StateNext]_vars

\* ----------------------------------------- connection-state callbacks in flight
\* what the connection-state callbacks leave alone
ConnOtherVars ==
    <<initPc, initUsers, isInitialized, state, stateLock, workerPc, activeBuffer,
      inactiveBuffer, buf, internalQueue, socialEventQueue, numEventsThisFrame,
      userAddedContext, subs, unsubTasks, graphTimer, refreshCount, fullFetch, diffArg,
      tceResult, calls, changeStruct, snapshot, nextSeq, lastApplied, pinned, allocs,
      addedEvents, transportFailed, unsubscribed, appliedThisFrame, userBuffer,
      bufferCall, polling, pollHistory, doWork, lockThreads, mutexOwner, initResult,
      applied, diffOut, pollResults>>

\* the RTA service reports a connection state: every connection-state handler
\* registered so far (lines 843-851) is to be invoked with it
rta_state_change ==
    /\ ~crashed
    /\ conn.changes < MaxRtaCallbacks
    /\ \E rtaState \in RtaStates :
        conn' = [conn EXCEPT !.changes = @ + 1,
                             !.pending = @ \o [i \in 1..rta.handlers |-> rtaState]]
    /\ UNCHANGED <<rta, crashed, subTasks>>
    /\ UNCHANGED ConnOtherVars

\* handle_rta_connection_state_change, lines 1329-1336: the flag is copied
\* under the two mutexes, which are released before the branch
handle_rta_connection_state_change_read ==
    /\ ~crashed
    /\ conn.pending # <<>>
    /\ \E t \in ConnThreads :
        /\ conn.threads[t].pc = "idle"
        /\ conn' = [conn EXCEPT !.pending = Tail(@),
                                !.threads[t] = [pc |-> "read",
                                                rtaState |-> Head(conn.pending),
                                                wasDisconnected |-> rta.wasDisconnected]]
    /\ UNCHANGED <<rta, crashed, subTasks>>
    /\ UNCHANGED ConnOtherVars

\* handle_rta_connection_state_change, lines 1337-1361: the branch on the state
\* and on the copy of the flag, setup_rta_subscriptions(true) (which registers
\* the three handlers again unless there is no inactive buffer, line 799),
\* then the handler set by the application
handle_rta_connection_state_change_act ==
    /\ ~crashed
    /\ \E t \in ConnThreads :
        LET call == conn.threads[t]
            done == [conn EXCEPT !.threads[t] = IdleCallback,
                                 !.runs = @ + 1, !.appCalls = @ + 1]
        IN /\ call.pc = "read"
           /\ IF call.rtaState = "disconnected"
              THEN /\ rta' = [rta EXCEPT !.wasDisconnected = TRUE, !.last = call.rtaState,
                                          !.callbacks = @ + 1]
                   /\ conn' = [done EXCEPT !.passes = 0]
                   /\ UNCHANGED <<crashed, subTasks>>
              ELSE IF ~shouldResubscribe(call.rtaState, call.wasDisconnected)
              THEN /\ rta' = [rta EXCEPT !.last = call.rtaState, !.callbacks = @ + 1]
                   /\ conn' = done
                   /\ UNCHANGED <<crashed, subTasks>>
              ELSE IF inactiveBuffer = "null"
              THEN /\ rta' = [rta EXCEPT !.wasDisconnected = FALSE, !.last = call.rtaState,
                                          !.callbacks = @ + 1]
                   /\ conn' = [done EXCEPT !.passes = @ + 1]
                   /\ UNCHANGED <<crashed, subTasks>>
              ELSE /\ rta' = [rta EXCEPT !.wasDisconnected = FALSE, !.last = call.rtaState,
                                          !.callbacks = @ + 1, !.handlers = @ + 1]
                   /\ conn' = [done EXCEPT !.passes = @ + 1]
                   /\ \E fault \in BOOLEAN :
                        /\ fault => \E u \in DOMAIN buf[inactiveBuffer].socialUserGraph :
                                 buf[inactiveBuffer].socialUserGraph[u].socialUser = Dangling
                        /\ crashed' = fault
                        /\ subTasks' = IF fault THEN subTasks
                                       ELSE SpawnTask(subTasks, "this",
                                                      PopulatedIds(buf[inactiveBuffer]))
    /\ UNCHANGED ConnOtherVars

ConnNext ==
    \/ InitFetchFailed
    \/ InitBufferA
    \/ InitBufferB
    \/ InitSubscribed
    \/ InitSubscribeFailed
    \/ rta_state_change
    \/ handle_rta_connection_state_change_read
    \/ handle_rta_connection_state_change_act

ConnSpec == Init /\ [][ConnNext]_vars

\* --------------------------------------------------------------- properties
GraphChanged(b) == GraphView(buf'[b]) # GraphView(buf[b])

\* C1: no step changes the graph, the slab or the free list of the buffer that
\* is active before the step, and no step changes the graphs of both buffers
C1_ActiveBufferUntouched ==
    [][/\ activeBuffer # "null" =>
            /\ ~GraphChanged(activeBuffer)
            /\ buf'[activeBuffer].socialUserGraph = buf[activeBuffer].socialUserGraph
            /\ buf'[activeBuffer].buffer = buf[activeBuffer].buffer
            /\ buf'[activeBuffer].freeData = buf[activeBuffer].freeData
       /\ ~(GraphChanged("A") /\ GraphChanged("B"))]_vars

\* C1 case: events were applied to the inactive buffer, whose graph now
\* differs from the one the application reads
C1_Witness ==
    /\ activeBuffer # "null"
    /\ lastApplied[inactiveBuffer] > 0
    /\ GraphView(buf[inactiveBuffer]) # GraphView(buf[activeBuffer])

\* C2 as written: whenever do_work returns on an initialized core, buffers A
\* and B hold equal graphs (keys, user values, ref_counts)
C2_EqualAfterDoWork ==
    [][do_work /\ isInitialized => GraphView(buf'["A"]) = GraphView(buf'["B"])]_vars

\* C2 amended: on an initialized core, when neither buffer has a pending
\* mirrored event, buffers A and B hold equal graphs
C2_EqualWhenMirrorsDrained ==
    isInitialized /\ buf["A"].socialUserEventQueue = <<>> /\ buf["B"].socialUserEventQueue = <<>>
        => GraphView(buf["A"]) = GraphView(buf["B"])

\* C2 case: an event changed the graph, was replayed on the other buffer, and
\* no mirror is left
C2_Witness ==
    /\ isInitialized
    /\ buf["A"].socialUserEventQueue = <<>> /\ buf["B"].socialUserEventQueue = <<>>
    /\ lastApplied["A"] > 0 /\ lastApplied["B"] = lastApplied["A"]
    /\ GraphView(buf["A"]) # GraphView(initialize_buffer(EmptyBuffer, initUsers, 0))

\* C3: a do_work that swaps returns the graph the inactive buffer held just
\* before the swap, and in every later state up to the next do_work the buffer
\* handed to the application still shows the graph it showed at that return
C3_SnapshotStable ==
    [][/\ do_work /\ shouldSwap(state, inactiveBuffer, buf)
            => snapshot' = GraphView(buf[inactiveBuffer])
       /\ changeStruct' # "null" => GraphView(buf'[changeStruct']) = snapshot']_vars

\* C3 case: a swap made B the buffer handed out, and the other buffer has
\* moved on since
C3_Witness ==
    /\ changeStruct = "B"
    /\ GraphView(buf["B"]) = snapshot
    /\ GraphView(buf["A"]) # snapshot

\* C4: the roles of the two buffers change only in a do_work step taken in
\* state normal with an empty pending list on the inactive buffer
C4_SwapOnlyInDoWork ==
    [][activeBuffer # "null" /\ activeBuffer' # activeBuffer =>
            /\ do_work
            /\ state = "normal"
            /\ buf[inactiveBuffer].socialUserEventQueue = <<>>]_vars

\* C4 case: a swap has happened and the worker holds a state in which do_work
\* does not swap
C4_Witness ==
    /\ activeBuffer = "B"
    /\ state # "normal"

\* the ref_count a reader finds for id u in buffer b (0: no entry)
RefCountOf(b, u) ==
    IF u \in DOMAIN b.socialUserGraph THEN b.socialUserGraph[u].refCount ELSE 0

\* C5 as written: every ref_count is the number of adds minus the number of
\* removes of its id, clamped at 0 (never negative, never wrapped), and an id
\* whose count is 0 has no entry a remove created
C5_RefCountClamped ==
    \A b \in Buffers : \A u \in Ids :
        /\ RefCountOf(buf[b], u) >= 0
        /\ u \in DOMAIN buf[b].socialUserGraph => pinned[b][u] >= 0

\* the steps of the worker: a fresh event leaves the internal queue, a
\* mirrored one leaves the pending list of the inactive buffer
FreshApply == internalQueue # <<>> /\ internalQueue' = Tail(internalQueue)
ReplayApply ==
    /\ inactiveBuffer # "null"
    /\ buf[inactiveBuffer].socialUserEventQueue # <<>>
    /\ buf'[inactiveBuffer].socialUserEventQueue = Tail(buf[inactiveBuffer].socialUserEventQueue)

\* the public events a step appends
Appended ==
    IF Len(socialEventQueue') > Len(socialEventQueue)
    THEN SubSeq(socialEventQueue', Len(socialEventQueue) + 1, Len(socialEventQueue'))
    ELSE <<>>

CountKind(pub, kind, u, err) ==
    Cardinality({i \in 1..Len(pub) :
        pub[i].kind = kind /\ pub[i].err = err /\ InSeq(u, pub[i].users)})

SlotOf(b, u) ==
    IF u \in DOMAIN b.socialUserGraph THEN GraphView(b)[u].slot ELSE "absent"

Quiescent ==
    /\ isInitialized /\ workerPc = "idle" /\ stateLock = "none"
    /\ internalQueue = <<>> /\ graphTimer.pending = <<>> /\ fullFetch = 0
    /\ buf["A"].socialUserEventQueue = <<>> /\ buf["B"].socialUserEventQueue = <<>>

\* no ref_count has gone below 0
NoWrappedCount ==
    \A b \in Buffers : \A u \in Ids : RefCountOf(buf[b], u) >= 0 /\ pinned[b][u] >= 0

C7_RemovedEventExactlyAtZero ==
    [][/\ FreshApply /\ Head(internalQueue).type = "users_removed" /\ ~crashed' =>
            Appended =
              IF \E u \in SeqToSet(Head(internalQueue).ids) :
                    RefCountOf(buf[inactiveBuffer], u) = 1
              THEN <<[kind |-> "users_removed_from_social_graph",
                      users |-> Head(internalQueue).ids, err |-> FALSE]>>
              ELSE <<>>
       /\ ReplayApply /\ Head(buf[inactiveBuffer].socialUserEventQueue).type = "users_removed"
            => Appended = <<>>]_vars

\* C7 case: a removal took an initial user's ref_count to 0 and evicted it
\* from the inactive buffer, and one event for it is in the public queue
C7_Witness ==
    \E u \in Ids :
        /\ InSeq(u, UserIds(initUsers))
        /\ CountKind(socialEventQueue, "users_removed_from_social_graph", u, FALSE) = 1
        /\ SlotOf(buf[inactiveBuffer], u) = "absent"
        /\ SlotOf(buf[activeBuffer], u) = "populated"

\* C8 as written: the task that unsubscribe_users starts for the evicted ids
\* issues one device and one title unsubscribe for each of them and takes
\* each of them out of the subscription table
C8_EvictionUnsubscribes ==
    [][\A i \in 1..Len(unsubTasks) :
          unsubTasks' = RemoveAt(unsubTasks, i) =>
              \A u \in SeqToSet(unsubTasks[i].users) :
                  /\ u \notin DOMAIN subs'
                  /\ unsubscribed'[u] = unsubscribed[u] + 1]_vars

\* a buffer holds a populated slot for id u
Populated(u) == \E b \in Buffers : SlotOf(buf[b], u) = "populated"

C10_AppliedInEnqueueOrder ==
    [][\A b \in Buffers :
          lastApplied'[b] # lastApplied[b] => lastApplied'[b] = lastApplied[b] + 1]_vars

\* C10 case: two events went through both buffers
C10_Witness ==
    lastApplied["A"] >= 2 /\ lastApplied["B"] >= 2
\* C11 as stated: between two consecutive returns of do_work at most
\* NUM_EVENTS_PER_FRAME apply_event calls are made, the replays of
\* process_cached_events counted like the fresh applications of process_events
C11_AppliesPerFrame ==
    appliedThisFrame.fresh + appliedThisFrame.replay <= NUM_EVENTS_PER_FRAME

\* C11: between two consecutive returns of do_work at most NUM_EVENTS_PER_FRAME
\* events are applied fresh, and m_numEventsThisFrame is their number; the
\* replays of process_cached_events are outside this budget
C11_FreshAppliesPerFrame ==
    /\ appliedThisFrame.fresh <= NUM_EVENTS_PER_FRAME
    /\ appliedThisFrame.fresh = numEventsThisFrame

C11_Witness ==
    /\ appliedThisFrame.fresh = NUM_EVENTS_PER_FRAME
    /\ appliedThisFrame.replay >= 1
    /\ internalQueue # <<>>
    /\ workerPc = "idle"
\* the ids whose entry points at a slot of the slab
LiveUsers(b) == {u \in DOMAIN b.socialUserGraph : b.socialUserGraph[u].socialUser >= 1}

\* C12: a call that adds users, the slab reallocated or not, leaves every user
\* that was live before it in the graph, its entry pointing at a slot that holds
\* the same value, and the graph holds no id besides those and the ones added
C12_ReallocPreservesUsers ==
    [][(bufferCall'.op = "add" /\ ~crashed')
        => /\ \A u \in LiveUsers(userBuffer) :
                /\ u \in LiveUsers(userBuffer')
                /\ UserAt(userBuffer', u) = UserAt(userBuffer, u)
           /\ DOMAIN userBuffer'.socialUserGraph
                \subseteq (DOMAIN userBuffer.socialUserGraph
                           \cup SeqToSet(bufferCall'.ids))]_vars
\* the buffers that the application of a UsersAdded for ids leaves
AfterAdd(b, ids) ==
    {o \in apply_event(InternalEvent("users_added", ids, <<>>, <<>>, NullCtx, FALSE, 0, 0),
                       b, TRUE, 0) : ~o.crash}

\* the buffers that the fetch result of the ids the add fired leaves
AfterFetch(o1) ==
    IF o1.fire = <<>> THEN {o1.b}
    ELSE UNION {{o2.b : o2 \in {x \in apply_event(
                                     InternalEvent("users_changed", o1.fire, users, <<>>,
                                                   o1.fireCtx, FALSE, 0, 0),
                                     o1.b, TRUE, o1.uac) : ~x.crash}}
                : users \in UserListsFor(o1.fire)}

\* add_users(ids), the fetch result arrived or not, then remove_users(ids)
AddThenRemove(b, ids, fetched) ==
    UNION {UNION {{o3.b : o3 \in {x \in apply_event(
                                       InternalEvent("users_removed", ids, <<>>, <<>>,
                                                     NullCtx, FALSE, 0, 0),
                                       b2, TRUE, 0) : ~x.crash}}
                  : b2 \in (IF fetched THEN AfterFetch(o1) ELSE {o1.b})}
           : o1 \in AfterAdd(b, ids)}

\* C13: in every state the initialized core reaches, add_users(S) followed by
\* remove_users(S), with or without the fetch result in between, leaves the
\* graph of each buffer as it was: same keys, same values, same ref_counts
C13_AddThenRemoveRestores ==
    isInitialized /\ ~crashed =>
        \A bb \in Buffers : \A ids \in IdLists : \A fetched \in BOOLEAN :
            \A b2 \in AddThenRemove(buf[bb], ids, fetched) :
                GraphView(b2) = GraphView(buf[bb])

\* the call is a UsersChanged whose profiles are those of the call before it
SecondApplication(call) ==
    call.op = "change" /\ call.prev = [op |-> "change", users |-> call.users]

OneProfilesChanged(call) ==
    <<[kind |-> "profiles_changed", users |-> call.ids, err |-> FALSE]>>

\* C14 as stated: a UsersChanged for a populated id pushes one profiles_changed
\* when its profiles are applied for the first time and no public event when
\* the application before it carried the identical profiles
C14_SecondApplicationSilent ==
    bufferCall.op = "change" /\ ~crashed =>
        bufferCall.pub = IF SecondApplication(bufferCall) THEN <<>>
                         ELSE OneProfilesChanged(bufferCall)

\* C14: every fresh application of a UsersChanged for a populated id pushes
\* exactly one profiles_changed, the second application of identical profiles
\* too, although it leaves the buffer as it was; a replay of the event pushes
\* no public event
C14_OneEventPerFreshApplication ==
    [][(bufferCall'.op = "change" /\ ~crashed')
        => /\ bufferCall'.pub = OneProfilesChanged(bufferCall')
           /\ SecondApplication(bufferCall') => userBuffer' = userBuffer
           /\ \A o \in apply_event(InternalEvent("users_changed", bufferCall'.ids,
                                                  bufferCall'.users, <<>>, NullCtx,
                                                  FALSE, 0, 0),
                                    userBuffer, FALSE, 0) :
                ~o.crash => o.pub = <<>> /\ o.b = userBuffer']_vars

C14_Witness ==
    /\ SecondApplication(bufferCall)
    /\ ~crashed
    /\ Len(bufferCall.pub) = 1
    /\ UserAt(userBuffer, bufferCall.ids[1]) = bufferCall.users[1]
PollingStopped == polling.scheduled = 0 /\ polling.running = 0

\* C15: once enable_rich_presence_polling(false) has set the cancel flag and as
\* long as no later call clears it, a scheduled iteration that looks at the
\* flag returns without polling and without scheduling another; once no
\* iteration is left no poll is issued and none is scheduled; and the
\* iterations left do run out
C15_PollingStops ==
    /\ [][(polling.shouldCancel /\ polling'.scheduled < polling.scheduled)
            => /\ pollHistory'.polls = pollHistory.polls
               /\ polling'.scheduled = polling.scheduled - 1
               /\ polling'.running = polling.running]_vars
    /\ [][(polling.shouldCancel /\ polling'.shouldCancel /\ PollingStopped)
            => pollHistory'.polls = pollHistory.polls /\ PollingStopped']_vars
    /\ (polling.shouldCancel ~> (PollingStopped \/ ~polling.shouldCancel))

C15_Witness ==
    /\ polling.shouldCancel
    /\ ~polling.isPollingRichPresence
    /\ PollingStopped
    /\ pollHistory.polls >= 1
    /\ pollHistory.calls = 2
IsPrefix(s, t) == Len(s) <= Len(t) /\ SubSeq(t, 1, Len(s)) = s

\* C16: a step that is not of do_work only appends to the public queue; a
\* do_work call copies the whole queue in its order or nothing, and what it
\* clears before it returns is exactly what it copied, also with the worker
\* replaying meanwhile: every public event is handed out once, in the order
\* of production
C16_DeliveredOnceInOrder ==
    [][/\ doWork' = doWork => IsPrefix(socialEventQueue, socialEventQueue')
       /\ (doWork.pc = "idle" /\ doWork' # doWork)
            => /\ socialEventQueue' = socialEventQueue
               /\ doWork'.socialEvents \in {<<>>, socialEventQueue}
               /\ doWork'.pc = "copied" <=> doWork'.socialEvents # <<>>
       /\ doWork.pc = "copied"
            => /\ doWork'.pc = "copied" => IsPrefix(socialEventQueue, socialEventQueue')
               /\ doWork'.pc = "idle" => /\ socialEventQueue = doWork.socialEvents
                                         /\ socialEventQueue' = <<>>
                                         /\ doWork'.socialEvents = doWork.socialEvents]_vars

C16_Witness ==
    /\ doWork.pc = "idle"
    /\ Len(doWork.socialEvents) >= 1
    /\ socialEventQueue # <<>>
    /\ workerPc = "cached"

Rank(m) == CASE m = "state" -> 1 [] m = "graph" -> 2 [] OTHER -> 3

Owned(t) == {m \in Mutexes : mutexOwner[m].owner = t}

Blocked(t) ==
    NextOp(t).kind = "acquire" /\ mutexOwner[NextOp(t).what].owner \notin {"none", t}

\* the thread waits for a thread that waits ... n times over
RECURSIVE WaitChain(_, _)
WaitChain(t, n) ==
    IF ~Blocked(t) THEN FALSE
    ELSE IF n = 0 THEN TRUE
    ELSE WaitChain(mutexOwner[NextOp(t).what].owner, n - 1)

\* C17: a thread that acquires a mutex it does not own yet owns only mutexes
\* that come before it in the order state, graph, priority; and no thread
\* waits in a cycle of threads that wait for each other
C17_LockOrder ==
    /\ \A t \in Threads :
        (NextOp(t).kind = "acquire" /\ NextOp(t).what \notin Owned(t))
            => \A m \in Owned(t) : Rank(m) < Rank(NextOp(t).what)
    /\ \A t \in Threads : ~WaitChain(t, Cardinality(Threads))

C17_Witness ==
    /\ Blocked("application")
    /\ lockThreads["application"].fn = "enable_rich_presence_polling"
    /\ Owned("worker") = Mutexes
    /\ Blocked("pool1")
    /\ Blocked("rta")

\* C18: no thread makes an outbound call (RTA activate or deactivate, a
\* subscribe or unsubscribe, an HTTP fetch) while it owns the priority mutex
C18_NoOutboundUnderPriority ==
    \A t \in Threads :
        NextOp(t).kind = "outbound" => mutexOwner["priority"].owner # t
\* C19: an initial fetch that ends with an error other than failed-dependency
\* makes initialize() return that error, is_initialized stays false and no
\* internal event is applied to either buffer; a failed-dependency result lets
\* initialize() return success with both graphs empty and is_initialized true
C19_InitialFetchError ==
    /\ [](initResult.fetch \notin {"pending", "no_error", "http_status_424_failed_dependency"}
         => /\ initResult.returned = initResult.fetch
            /\ initPc = "failed"
            /\ ~isInitialized
            /\ \A b \in Buffers : lastApplied[b] = 0 /\ buf[b] = EmptyBuffer)
    /\ [](initResult.fetch = "http_status_424_failed_dependency"
         => /\ initPc # "failed"
            /\ initResult.returned \in {"pending", "no_error"}
            /\ initUsers = <<>>
            /\ initResult.returned = "no_error" <=> isInitialized)
    /\ [][(initResult.fetch = "http_status_424_failed_dependency" /\ isInitialized' /\ ~isInitialized)
            => /\ initResult'.returned = "no_error"
               /\ \A b \in Buffers : GraphView(buf'[b]) = GraphView(EmptyBuffer)]_vars

C19_Witness ==
    /\ initResult.returned = "http_status_500_internal_server_error"
    /\ internalQueue # <<>>
    /\ workerPc = "events"

\* the worker applies, fresh, the users_changed event of a failed fetch
FreshErrorApply ==
    /\ workerPc = "events"
    /\ internalQueue # <<>>
    /\ Head(internalQueue).type = "users_changed"
    /\ Head(internalQueue).err
    /\ internalQueue' = Tail(internalQueue)

IsErrorEvent(e) == e.kind = "users_added_to_social_graph" /\ e.err

ErrorEvents(q) == SelectSeq(q, IsErrorEvent)

\* C20: when the event of a failed fetch is applied, the completion it carries
\* is resolved with the error, one users_added_to_social_graph event with the
\* error and the ids of the fetch joins the public queue and no buffer's graph
\* changes; the do_work call that drains the queue hands the event out
C20_FetchErrorSurfaces ==
    /\ [][FreshErrorApply =>
            LET evt == Head(internalQueue)
            IN /\ ~crashed'
               /\ socialEventQueue' = socialEventQueue \o
                      <<[kind |-> "users_added_to_social_graph", users |-> evt.ids, err |-> TRUE]>>
               /\ ~evt.ctx.isNull => tceResult'[evt.ctx.tce] = "err"
               /\ \A b \in Buffers : GraphView(buf'[b]) = GraphView(buf[b])]_vars
    /\ [][(doWork.pc = "idle" /\ doWork'.pc = "copied")
            => ErrorEvents(doWork'.socialEvents) = ErrorEvents(socialEventQueue)]_vars

C20_Witness ==
    /\ doWork.pc = "idle"
    /\ ErrorEvents(doWork.socialEvents) # <<>>
    /\ \E c \in 1..MaxCalls : tceResult[c] = "err"
    /\ \E b \in Buffers : \E u \in DOMAIN buf[b].socialUserGraph :
           buf[b].socialUserGraph[u].socialUser = 0
\* r2 is the 32-bit unsigned count r plus one, with no wrap: in the two's
\* complement reading held here 0xFFFFFFFF shows as -1 and 0x80000000 as MinInt32
UnsignedPlusOne(r, r2) ==
    /\ r # -1
    /\ r2 = (IF r = MaxInt32 THEN MinInt32 ELSE r + 1)

\* the worker applies, fresh, a users_added event
FreshAddedApply ==
    /\ workerPc = "events"
    /\ internalQueue # <<>>
    /\ Head(internalQueue).type = "users_added"
    /\ internalQueue' = Tail(internalQueue)

\* C21: a fresh UsersAdded raises the ref_count of every id it finds in the
\* graph by one and leaves its slot alone, gives every other id an entry with
\* ref_count 1 and an empty slot, and when it found every id it resolves the
\* completion with success and fires no fetch
C21_UsersAddedCounts ==
    [][FreshAddedApply =>
        LET evt == Head(internalQueue)
            g == buf[inactive_buffer].socialUserGraph
            g2 == buf'[inactive_buffer].socialUserGraph
        IN /\ \A i \in 1..Len(evt.ids) :
                LET u == evt.ids[i]
                IN /\ u \in DOMAIN g2
                   /\ u \in DOMAIN g =>
                         /\ UnsignedPlusOne(g[u].refCount, g2[u].refCount)
                         /\ g2[u].socialUser = g[u].socialUser
                   /\ u \notin DOMAIN g => g2[u] = [socialUser |-> 0, refCount |-> 1]
           /\ (\A i \in 1..Len(evt.ids) : evt.ids[i] \in DOMAIN g)
                => /\ tceResult'[evt.tce] = "ok"
                   /\ graphTimer' = graphTimer]_vars
\* a callback of handle_rta_connection_state_change ran
RtaCallback == rta'.callbacks = rta.callbacks + 1

\* C22: once a disconnect has latched was_disconnected, a callback of a state
\* other than connected leaves it set; the connected callback clears it, starts
\* the subscription of every id with a populated slot and schedules a refresh
C22_Reconnect ==
    /\ [][(RtaCallback /\ rta.wasDisconnected /\ rta'.last # "connected")
            => rta'.wasDisconnected]_vars
    /\ [][(RtaCallback /\ rta.wasDisconnected /\ rta'.last = "connected" /\ ~crashed')
            => /\ ~rta'.wasDisconnected
               /\ inactiveBuffer # "null" =>
                     subTasks' = SpawnTask(subTasks, "this", PopulatedIds(buf[inactiveBuffer]))
               /\ rta'.resyncFires = rta.resyncFires + 1]_vars
\* the first do_work that returns a snapshot, after initialize() has succeeded
\* and before any other call
FirstDoWork ==
    /\ initPc = "done"
    /\ initUsers # <<>>
    /\ calls = 0
    /\ changeStruct = "null"
    /\ changeStruct' # "null"

\* the snapshot holds exactly the users of the initial fetch
SnapshotIsInitialList(snap) ==
    /\ DOMAIN snap = {initUsers[i].id : i \in 1..Len(initUsers)}
    /\ \A i \in 1..Len(initUsers) :
          /\ snap[initUsers[i].id].slot = "populated"
          /\ snap[initUsers[i].id].user = initUsers[i]

\* C23: the first do_work after a successful initialize() with a non-empty
\* initial list returns a snapshot of exactly those users and hands out a
\* users_added_to_social_graph event that lists them
C23_FirstFrame ==
    [][FirstDoWork =>
        /\ SnapshotIsInitialList(snapshot')
        /\ \E i \in 1..Len(doWork'.socialEvents) :
              /\ doWork'.socialEvents[i].kind = "users_added_to_social_graph"
              /\ doWork'.socialEvents[i].users = UserIds(initUsers)]_vars
\* every event enqueued so far was applied to both buffers, nothing is pending,
\* and the snapshot handed out last shows the result
Settled ==
    /\ activeBuffer # "null"
    /\ internalQueue = <<>>
    /\ \A b \in Buffers : buf[b].socialUserEventQueue = <<>> /\ lastApplied[b] = nextSeq
    /\ state = "normal"
    /\ changeStruct = activeBuffer
    /\ snapshot = GraphView(buf[activeBuffer])
    /\ GraphView(buf["A"]) = GraphView(buf["B"])

\* C24: with the worker and do_work running, an initialized core that has
\* events queued reaches a state where every event was applied to both
\* buffers, both pending lists are empty, the state is normal and the snapshot
\* returned by do_work shows every applied change
C24_SwapNotStarved ==
    (isInitialized /\ internalQueue # <<>>) ~> Settled

C24_Witness ==
    /\ Settled
    /\ isInitialized
    /\ nextSeq > NUM_EVENTS_PER_FRAME
    /\ \E u \in DOMAIN snapshot : snapshot[u].slot = "populated"
\* the outcomes of the replay the worker is about to make
ReplayOutcomes ==
    IF workerPc = "cached" /\ buf[inactive_buffer].socialUserEventQueue # <<>>
    THEN apply_event(Head(buf[inactive_buffer].socialUserEventQueue),
                     [buf[inactive_buffer] EXCEPT !.socialUserEventQueue = Tail(@)],
                     FALSE, userAddedContext)
    ELSE {}

\* C25: the replay of a cached event pushes no public event, fires no timer
\* and starts no subscribe or unsubscribe, whatever the kind of the event
C25_ReplaySilent ==
    \A o \in ReplayOutcomes :
        ~o.crash => o.pub = <<>> /\ o.fire = <<>> /\ o.sub = <<>> /\ o.unsub = <<>>
Other(b) == IF b = "A" THEN "B" ELSE "A"

\* the entries of a history or of a list of events that carry sequence number n
WithSeq(log, n) == SelectSeq(log, LAMBDA e : e.seq = n)

Dequeued(n) == n \in 1..nextSeq /\ WithSeq(internalQueue, n) = <<>>

\* C26: an event taken from the internal queue was applied fresh to exactly one
\* buffer, once; on the other buffer it is either still in the pending list,
\* once, or was replayed, once, and never both; a buffer's applications follow
\* the sequence numbers with none repeated, so the replay of an event comes
\* before any later event is applied to that buffer; and each application is
\* entered on the buffer that is inactive when it is made
C26_AppliedOncePerBuffer ==
    /\ [](\A n \in 1..nextSeq : Dequeued(n) =>
            \E b \in Buffers :
                /\ WithSeq(applied[b], n) = <<[seq |-> n, fresh |-> TRUE]>>
                /\ Len(WithSeq(applied[Other(b)], n))
                     + Len(WithSeq(buf[Other(b)].socialUserEventQueue, n)) = 1
                /\ WithSeq(applied[Other(b)], n) \in {<<>>, <<[seq |-> n, fresh |-> FALSE]>>}
                /\ WithSeq(buf[b].socialUserEventQueue, n) = <<>>)
    /\ [](\A b \in Buffers : \A i \in 1..Len(applied[b]) : applied[b][i].seq = i)
    /\ [][\A b \in Buffers : applied'[b] # applied[b] => b = inactiveBuffer]_vars

C26_Witness ==
    /\ ~crashed
    /\ Len(applied["A"]) >= 2
    /\ Len(applied["B"]) >= 2
    /\ applied["A"][1].fresh # applied["A"][2].fresh

\* the ids the UsersRemoved events of a list of internal events name
RemovedIds(events) ==
    UNION {SeqToSet(events[i].ids) : i \in {j \in 1..Len(events) : events[j].type = "users_removed"}}

\* C27: a diff enqueues UsersRemoved for every id of the graph that is absent
\* from the fetched list and whose stored profile says is_following_user, and
\* for no id that is in the list, that has an empty slot or whose stored
\* profile says the caller does not follow it
C27_DiffRemoves ==
    [][DiffPerform =>
        LET g == userBuffer.socialUserGraph
            fetchedIds == SeqToSet(UserIds(diffOut'.fetched))
            removed == RemovedIds(diffOut'.events)
        IN /\ \A u \in DOMAIN g :
                (u \notin fetchedIds /\ g[u].socialUser >= 1 /\ UserAt(userBuffer, u).following)
                    => u \in removed
           /\ \A u \in removed :
                /\ u \in DOMAIN g
                /\ u \notin fetchedIds
                /\ g[u].socialUser # 0
                /\ g[u].socialUser >= 1 => UserAt(userBuffer, u).following]_vars

\* C28: the diff enqueues a UsersChanged carrying the profile of every fetched
\* id that is not in the graph, and when the worker applies that event the id
\* is in the graph with a populated slot and a users_added_to_social_graph
\* event naming it is emitted
C28_DiffConverges ==
    [][/\ (DiffPerform /\ ~crashed') =>
            \A i \in 1..Len(diffOut'.fetched) :
                diffOut'.fetched[i].id \notin DOMAIN userBuffer.socialUserGraph =>
                    \E k \in 1..Len(diffOut'.events) :
                        /\ diffOut'.events[k].type = "users_changed"
                        /\ InSeq(diffOut'.fetched[i], diffOut'.events[k].users)
       /\ (DiffApply /\ ~crashed' /\ Head(diffOut.events).type = "users_changed") =>
            \A u \in SeqToSet(Head(diffOut.events).ids) :
                u \notin DOMAIN userBuffer.socialUserGraph =>
                    /\ u \in DOMAIN userBuffer'.socialUserGraph
                    /\ userBuffer'.socialUserGraph[u].socialUser >= 1
                    /\ \E k \in 1..Len(bufferCall'.pub) :
                        /\ bufferCall'.pub[k].kind = "users_added_to_social_graph"
                        /\ InSeq(u, bufferCall'.pub[k].users)]_vars

\* the records of a PresenceChanged that differ from the stored presence of
\* their user, by position
Differing(b, records) ==
    {i \in 1..Len(records) :
        /\ records[i].id \in DOMAIN b.socialUserGraph
        /\ b.socialUserGraph[records[i].id].socialUser >= 1
        /\ UserAt(b, records[i].id).presence # records[i].presence}

\* C29: a fresh PresenceChanged overwrites the stored presence of each user
\* whose record differs and leaves every other user as it was; it emits one
\* presence_changed event listing exactly the ids that differed when one did
\* and nothing otherwise, and the same event applied once more emits nothing
C29_PresenceChanged ==
    [][PresenceApply =>
        LET g == userBuffer.socialUserGraph
            records == bufferCall'.users
            differs == Differing(userBuffer, records)
            differIds == {records[i].id : i \in differs}
        IN /\ \A i \in differs :
                UserAt(userBuffer', records[i].id) =
                    [UserAt(userBuffer, records[i].id) EXCEPT !.presence = records[i].presence]
           /\ \A u \in DOMAIN g :
                (g[u].socialUser >= 1 /\ u \notin differIds)
                    => UserAt(userBuffer', u) = UserAt(userBuffer, u)
           /\ userBuffer'.socialUserGraph = g
           /\ bufferCall'.pub =
                IF differs = {} THEN <<>>
                ELSE <<[kind |-> "presence_changed", users |-> SetToSeq(differIds),
                        err |-> FALSE]>>
           /\ (bufferCall.op = "presence" /\ bufferCall.users = records)
                => bufferCall'.pub = <<>>]_vars

\* C30: when the result of a presence poll is handled while the cancel flag
\* is set, no PresenceChanged is enqueued and the state of the graph, its
\* buffers and its queues stay as they were
C30_CancelledPollIgnored ==
    [][(presence_timer_callback /\ polling.shouldCancel) =>
        UNCHANGED <<internalQueue, nextSeq, state, buf, socialEventQueue>>]_vars

\* the buffers whose slab is replaced by the step
Reallocated == {b \in Buffers : Len(buf'[b].buffer) # Len(buf[b].buffer)}

\* C31: a worker step that reallocates a slab does so on the buffer that is
\* inactive, and the state it applies the event in (set at line 280 for a
\* replay, at line 304 for a fresh event, unchanged until the step ends) is
\* not normal
C31_ReallocNotNormal ==
    [][((process_events_apply \/ process_cached_events_apply) /\ Reallocated # {}) =>
        /\ Reallocated = {inactive_buffer}
        /\ state' # "normal"]_vars

\* C32: every do_work call copies all the public events accumulated so far to
\* the caller's list, in whatever state the graph is, and the public queue is
\* empty when the call returns
C32_DoWorkDrains ==
    [][/\ do_work_begin =>
            /\ doWork'.socialEvents = socialEventQueue
            /\ doWork'.pc = "idle" => socialEventQueue' = <<>>
       /\ do_work_clear => socialEventQueue' = <<>>]_vars

\* C33: whenever no task holds the state mutex the state is normal
C33_NormalWhenUnlocked ==
    stateLock = "none" => state = "normal"

C33_Witness ==
    /\ stateLock = "none"
    /\ state = "normal"
    /\ pollResults >= 1
    /\ refreshCount >= 1
    /\ fullFetch = 0
    /\ lastApplied[inactive_buffer] >= 1

\* the buffers whose pending event list is not empty
PendingBuffers == {b \in Buffers : buf[b].socialUserEventQueue # <<>>}

\* C34: in every reachable state at most one of the two buffers has a
\* non-empty pending event list, and a fresh event is applied to a buffer only
\* while that buffer's own pending list is empty
C34_OnePendingList ==
    [][/\ Cardinality(PendingBuffers) <= 1
       /\ Cardinality(PendingBuffers') <= 1
       /\ process_events_apply_step =>
             buf[inactive_buffer].socialUserEventQueue = <<>>]_vars

\* C34 case: fresh events were applied and mirrored, the buffers were swapped,
\* and the new inactive buffer still has mirrors to replay
C34_Witness ==
    /\ inactiveBuffer # "null"
    /\ buf[inactive_buffer].socialUserEventQueue # <<>>
    /\ buf[active_buffer].socialUserEventQueue = <<>>
    /\ lastApplied[active_buffer] >= 2

\* the ids of b whose entry has a populated slot (any pointer but nullptr)
PopulatedEntries(b) == {u \in DOMAIN b.socialUserGraph : b.socialUserGraph[u].socialUser # 0}

\* every populated entry of b references a slot inside b's current slab
SlotsInSlab(b) ==
    \A u \in PopulatedEntries(b) : b.socialUserGraph[u].socialUser \in 1..Len(b.buffer)

\* no two entries of b reference the same slot of the current slab
SlotsDistinct(b) ==
    \A u, w \in PopulatedEntries(b) :
        (u # w /\ b.socialUserGraph[u].socialUser >= 1)
            => b.socialUserGraph[u].socialUser # b.socialUserGraph[w].socialUser

\* no slot that an entry of b references is in b's free list
SlotsNotFree(b) ==
    \A u \in PopulatedEntries(b) : \A i \in 1..Len(b.freeData) :
        b.socialUserGraph[u].socialUser >= 1
            => b.freeData[i] # b.socialUserGraph[u].socialUser

\* b's free list holds no slot of the current slab twice
FreeSlotsDistinct(b) ==
    \A i, j \in 1..Len(b.freeData) :
        (i # j /\ b.freeData[i] >= 1) => b.freeData[i] # b.freeData[j]

\* C35: in a buffer, after any sequence of applied events, every graph entry
\* with a populated slot references a slot inside the buffer's current slab, no
\* two entries reference the same slot, no referenced slot is in free_slots,
\* and free_slots holds no slot twice
C35_SlabConsistent ==
    /\ SlotsInSlab(userBuffer)
    /\ SlotsDistinct(userBuffer)
    /\ SlotsNotFree(userBuffer)
    /\ FreeSlotsDistinct(userBuffer)

\* the ids of the list whose entry in b is absent or has an empty slot
NoUserIds(b, ids) ==
    {u \in SeqToSet(ids) :
        u \notin DOMAIN b.socialUserGraph \/ b.socialUserGraph[u].socialUser = 0}

\* evt is a ProfilesChanged or SocialRelationshipsChanged that names an id
\* without a user value in b
ProfileEventWithoutUser(evt, b) ==
    /\ evt.type \in {"profiles_changed", "social_relationships_changed"}
    /\ NoUserIds(b, evt.ids) # {}

\* the step ran to its end and left the graph of the inactive buffer as it was
GraphUntouched ==
    /\ ~crashed'
    /\ buf'[inactive_buffer].socialUserGraph = buf[inactive_buffer].socialUserGraph
    /\ buf'[inactive_buffer].buffer = buf[inactive_buffer].buffer

\* C36: no apply step and no diff step reads or writes the user value of an
\* id whose graph entry is absent or has an empty slot: a ProfilesChanged or
\* SocialRelationshipsChanged for such an id, and a diff over a fetched id whose
\* slot is still empty, run to their end, leave the graph unchanged and create
\* no entry
C36_NoUserNoAccess ==
    [][/\ (/\ process_events_apply_step
            /\ ProfileEventWithoutUser(Head(internalQueue), buf[inactive_buffer]))
           => GraphUntouched
       /\ (/\ process_cached_events_apply_step
            /\ ProfileEventWithoutUser(Head(buf[inactive_buffer].socialUserEventQueue),
                                       buf[inactive_buffer]))
           => GraphUntouched
       /\ (/\ perform_diff_end
            /\ NoUserIds(buf[inactive_buffer], UserIds(diffArg))
                    \cap DOMAIN buf[inactive_buffer].socialUserGraph # {})
           => GraphUntouched]_vars

\* the polling chains alive: the delayed presence_refresh_callback tasks that
\* are pending or past their check of the cancel flag
PollingChains(p) == p.scheduled + p.running

\* C37: for any sequence of enable_rich_presence_polling calls at most one
\* polling chain (one pending delayed presence_refresh_callback) exists at any
\* time, and a call with true while polling is already enabled starts nothing
C37_OnePollingChain ==
    [][/\ PollingChains(polling) <= 1
       /\ PollingChains(polling') <= 1
       /\ (enable_rich_presence_polling_true /\ polling.isPollingRichPresence)
            => /\ PollingChains(polling') = PollingChains(polling)
               /\ pollHistory'.polls = pollHistory.polls]_vars

\* thread t returns from handle_rta_connection_state_change in this step
CallbackReturns(t) == conn.threads[t].pc = "read" /\ conn'.threads[t].pc = "idle"

\* C38: each disconnect followed by non-disconnected connection callbacks
\* triggers exactly one re-subscription pass (setup_rta_subscriptions(true)),
\* also when two connection-state callbacks run concurrently: no second pass is
\* made before the next disconnect, and a callback of another state that found
\* the flag set returns with the one pass made and the flag cleared
C38_OneResubscription ==
    [][/\ conn'.passes <= 1
       /\ \A t \in ConnThreads :
            (/\ CallbackReturns(t)
             /\ conn.threads[t].rtaState # "disconnected"
             /\ conn.threads[t].wasDisconnected
             /\ ~crashed')
                => conn'.passes = 1 /\ ~rta'.wasDisconnected]_vars

\* no connection-state handler is pending or running
NoCallbackInFlight ==
    /\ conn.pending = <<>>
    /\ \A t \in ConnThreads : conn.threads[t].pc = "idle"

\* C39: for every RTA connection state change handle_rta_connection_state_change
\* runs once and the application's RTA state handler is invoked exactly once,
\* also after disconnect and reconnect cycles: re-subscribing adds no further
\* resync, subscription-error or connection-state handlers
C39_OneHandlerRun ==
    /\ rta.handlers = 1
    /\ NoCallbackInFlight => conn.runs = conn.changes /\ conn.appCalls = conn.changes

\* the do_work call of this step copies at least one public event
HandsOutEvents == do_work_begin /\ doWork'.socialEvents # <<>>

\* C40: whenever a do_work call hands out at least one public event, that same
\* call swapped the buffers, and the snapshot it returns is of the buffer that
\* every event applied so far has been applied to: no public event is delivered
\* before the change it reports is visible
C40_EventsAfterSwap ==
    [][HandsOutEvents =>
        /\ inactiveBuffer # "null"
        /\ activeBuffer' = inactiveBuffer
        /\ inactiveBuffer' = activeBuffer
        /\ snapshot' = GraphView(buf[inactiveBuffer])
        /\ lastApplied[activeBuffer'] >= lastApplied[inactiveBuffer']]_vars

\* C40 case: a do_work call has just copied public events and returned the
\* buffer that the worker changed last
C40_Witness ==
    /\ doWork.pc = "copied"
    /\ doWork.socialEvents # <<>>
    /\ activeBuffer # "null"
    /\ lastApplied[activeBuffer] >= 2
    /\ buf[inactiveBuffer].socialUserEventQueue # <<>>

====
